---------------------------- MODULE Spec2Model ----------------------------
(***************************************************************************)
(* Automata engine of richteryap/Automata: the NFA builder, the subset     *)
(* construction, the two tokenizers (Final.cpp, chessNot.cpp) and the two  *)
(* sequence validators (PDA::parse, ChessPDA::validateMoveSequence).       *)
(*                                                                         *)
(* Characters are their ASCII codes; a string is a sequence of codes.  A   *)
(* shared_ptr<State> is the 1-based position of the state in the builder's *)
(* `states` vector; a shared_ptr<DFAState> is the position in `dfaStates`. *)
(***************************************************************************)
EXTENDS Integers, Sequences, FiniteSets, TLC

VARIABLES
    phase,        \* where the program is: "converting", "scanning", "parsing", ...
    argOrder,     \* the order in which the build evaluates call arguments
    result,       \* the value a validator returned: "none", "true", "false"
    \* ---- a convertToDFA call, and the automata it relates, run on one word
    pattern,      \* the compiled pattern: "identifier", "moveNumber", ...
    conv,         \* convertToDFA's locals: dfaStateMap, dfaStates, unprocessed, ...
    nfaCur,       \* the NFA's current state set on the word read so far
    dfaCur,       \* the DFA's current state on it (0: no transition was left)
    build,        \* a createCharClassNFA call: the builder before it, validChars, the outcome
    \* ---- a tokenize call
    lexer,        \* the lexer: "Lexer" (Final.cpp) or "ChessLexer" (chessNot.cpp)
    line,         \* the string handed to tokenize (input)
    lex,          \* tokenize's locals: pos, tokens, hadLexicalError
    engine,       \* a lexer's members over several calls: its builder and its DFAs
    \* ---- a PDA::parse call
    tokens,       \* the vector handed to parse
    parse,        \* its locals and the stack: stackVar, currentState, tokenIndex
    \* ---- processInput after tokenize
    syntaxValid,  \* the value of validateMoveSyntax
    moves,        \* validateMoveSequence's locals and the ChessPDA fields
    \* ---- a validator object over several calls
    validator     \* its class, and its fields as the call under way found them

sharedVars == <<phase, argOrder, result>>
convVars == <<pattern, conv, nfaCur, dfaCur, build>>
scanVars == <<lexer, line, lex, engine>>
parseVars == <<tokens, parse>>
chessVars == <<syntaxValid, moves>>
callVars == <<validator>>

vars == <<sharedVars, convVars, scanVars, parseVars, chessVars, callVars>>

(***************************************************************************)
(* Characters                                                              *)
(***************************************************************************)
Ascii ==
    <<" ", "!", "<dquote>", "#", "$", "%", "&", "'", "(", ")", "*", "+", ",", "-",
      ".", "/", "0", "1", "2", "3", "4", "5", "6", "7", "8", "9", ":", ";",
      "<", "=", ">", "?", "@", "A", "B", "C", "D", "E", "F", "G", "H", "I",
      "J", "K", "L", "M", "N", "O", "P", "Q", "R", "S", "T", "U", "V", "W",
      "X", "Y", "Z", "[", "<backslash>", "]", "^", "_", "<backtick>", "a", "b", "c", "d", "e",
      "f", "g", "h", "i", "j", "k", "l", "m", "n", "o", "p", "q", "r", "s",
      "t", "u", "v", "w", "x", "y", "z", "{", "|", "}", "~">>

\* the code of a one-character string
Ord(ch) == 31 + (CHOOSE i \in 1..Len(Ascii) : Ascii[i] = ch)

\* a string literal, written as a tuple of one-character strings
Str(t) == [i \in 1..Len(t) |-> Ord(t[i])]

\* the NUL character, the symbol the builder uses for epsilon transitions
Epsilon == 0

\* isspace in the "C" locale: space, \t, \n, \v, \f, \r
isspace(c) == c = 32 \/ (c >= 9 /\ c <= 13)

(***************************************************************************)
(* NFA builder (class Lexer in Final.cpp, class ChessNFA in chessNot.cpp). *)
(* A builder is [states, stateCounter]; every operation returns the        *)
(* builder after the call as .b and the fragment as .f = [start, end].     *)
(***************************************************************************)
NewBuilder == [states |-> <<>>, stateCounter |-> 0]

\* createState handing out stateCounter without counting on
createStateSameId(b) ==
    [b |-> [states |-> Append(b.states,
                          [id |-> b.stateCounter, transitions |-> {}, isFinal |-> FALSE]),
            stateCounter |-> b.stateCounter],
     p |-> Len(b.states) + 1]

\* make_shared<State>(stateCounter++); states.push_back(state); p is the
\* place of the state in the vector
createState(b) ==
    [b |-> [states |-> Append(b.states,
                          [id |-> b.stateCounter, transitions |-> {}, isFinal |-> FALSE]),
            stateCounter |-> b.stateCounter + 1],
     p |-> Len(b.states) + 1]

\* p->transitions[c].push_back(q)
AddTransition(b, p, c, q) ==
    [b EXCEPT !.states[p].transitions = @ \cup {<<c, q>>}]

\* p->isFinal = v
SetFinal(b, p, v) == [b EXCEPT !.states[p].isFinal = v]

\* plain char is a signed 8-bit integer here: CHAR_MAX
CharMax == 127

\* the step of the scan with a range from high to low taken as empty
ScanAtNoRangeCheck(content, i) ==
    IF i + 2 <= Len(content) /\ content[i + 1] = Ord("-")
    THEN IF content[i + 2] = CharMax
         THEN [thrown |-> "diverges", chars |-> {}, width |-> 0]
         ELSE [thrown |-> "none", chars |-> content[i] .. content[i + 2], width |-> 3]
    ELSE [thrown |-> "none", chars |-> {content[i]}, width |-> 1]

\* the step of the scan with a range seen only when a character follows it
ScanAtShortWindow(content, i) ==
    IF i + 3 <= Len(content) /\ content[i + 1] = Ord("-")
    THEN IF content[i] > content[i + 2]
         THEN [thrown |-> "range", chars |-> {}, width |-> 0]
         ELSE IF content[i + 2] = CharMax
              THEN [thrown |-> "diverges", chars |-> {}, width |-> 0]
              ELSE [thrown |-> "none", chars |-> content[i] .. content[i + 2], width |-> 3]
    ELSE [thrown |-> "none", chars |-> {content[i]}, width |-> 1]

\* one iteration of the while loop of parseCharacterClass at index i
\* (1-based here): the characters inserted and the width i advances by, or
\* the exception.  `for (char c = start; c <= end; c++)` does not end when
\* end is CHAR_MAX: c <= end holds for every char
ScanAt(content, i) ==
    IF i + 2 <= Len(content) /\ content[i + 1] = Ord("-")
    THEN IF content[i] > content[i + 2]
         THEN [thrown |-> "range", chars |-> {}, width |-> 0]
         ELSE IF content[i + 2] = CharMax
              THEN [thrown |-> "diverges", chars |-> {}, width |-> 0]
              ELSE [thrown |-> "none", chars |-> content[i] .. content[i + 2], width |-> 3]
    ELSE [thrown |-> "none", chars |-> {content[i]}, width |-> 1]

\* parseCharacterClass: the scan of content from index i on
RECURSIVE ParseContent(_, _, _)
ParseContent(content, i, validChars) ==
    IF i > Len(content) THEN [thrown |-> "none", validChars |-> validChars]
    ELSE IF ScanAt(content, i).thrown # "none"
         THEN [thrown |-> ScanAt(content, i).thrown, validChars |-> validChars]
         ELSE ParseContent(content, i + ScanAt(content, i).width,
                           validChars \cup ScanAt(content, i).chars)

\* Lexer::parseCharacterClass: throws on a malformed specification
Lexer_parseCharacterClass(charClass) ==
    IF Len(charClass) = 0 \/ charClass[1] # Ord("[") \/ charClass[Len(charClass)] # Ord("]")
    THEN [thrown |-> "format", validChars |-> {}]
    ELSE ParseContent(SubSeq(charClass, 2, Len(charClass) - 1), 1, {})

\* ChessNFA::parseCharacterClass: prints and returns on a malformed specification
Chess_parseCharacterClass(charClass) ==
    IF Len(charClass) = 0 \/ charClass[1] # Ord("[") \/ charClass[Len(charClass)] # Ord("]")
    THEN [thrown |-> "none", validChars |-> {}]
    ELSE ParseContent(SubSeq(charClass, 2, Len(charClass) - 1), 1, {})

\* start->transitions[c].push_back(end) for every c of validChars
AddTransitions(b, p, validChars, q) ==
    [b EXCEPT !.states[p].transitions = @ \cup {<<c, q>> : c \in validChars}]

Lexer_createCharNFA(b, c) ==
    LET start == createState(b)
        end   == createState(start.b)
    IN [b |-> AddTransition(end.b, start.p, c, end.p),
        f |-> [start |-> start.p, end |-> end.p]]

Chess_createCharNFA(b, c) ==
    LET start == createState(b)
        end   == createState(start.b)
    IN [b |-> SetFinal(AddTransition(end.b, start.p, c, end.p), end.p, TRUE),
        f |-> [start |-> start.p, end |-> end.p]]

\* the two states are allocated before the specification is parsed
Lexer_createCharClassNFA(b, charClass) ==
    LET start  == createState(b)
        end    == createState(start.b)
        parsed == Lexer_parseCharacterClass(charClass)
    IN IF parsed.thrown # "none"
       THEN [b |-> end.b, f |-> [start |-> 0, end |-> 0], thrown |-> parsed.thrown]
       ELSE [b |-> AddTransitions(end.b, start.p, parsed.validChars, end.p),
             f |-> [start |-> start.p, end |-> end.p], thrown |-> "none"]

Chess_createCharClassNFA(b, charClass) ==
    LET start  == createState(b)
        end    == createState(start.b)
        parsed == Chess_parseCharacterClass(charClass)
    IN IF parsed.thrown # "none"
       THEN [b |-> end.b, f |-> [start |-> 0, end |-> 0], thrown |-> parsed.thrown]
       ELSE [b |-> SetFinal(AddTransitions(end.b, start.p, parsed.validChars, end.p),
                            end.p, TRUE),
             f |-> [start |-> start.p, end |-> end.p], thrown |-> "none"]

concatenate(b, a, f2) ==
    [b |-> SetFinal(AddTransition(b, a.end, Epsilon, f2.start), a.end, FALSE),
     f |-> [start |-> a.start, end |-> f2.end]]

unionNFA(b, a, f2) ==
    LET start == createState(b)
        end   == createState(start.b)
        b1 == AddTransition(end.b, start.p, Epsilon, a.start)
        b2 == AddTransition(b1, start.p, Epsilon, f2.start)
        b3 == AddTransition(b2, a.end, Epsilon, end.p)
        b4 == AddTransition(b3, f2.end, Epsilon, end.p)
        b5 == SetFinal(b4, a.end, FALSE)
        b6 == SetFinal(b5, f2.end, FALSE)
    IN [b |-> SetFinal(b6, end.p, TRUE),
        f |-> [start |-> start.p, end |-> end.p]]

kleeneStar(b, a) ==
    LET start == createState(b)
        end   == createState(start.b)
        b1 == AddTransition(end.b, start.p, Epsilon, a.start)
        b2 == AddTransition(b1, start.p, Epsilon, end.p)
        b3 == AddTransition(b2, a.end, Epsilon, a.start)
        b4 == AddTransition(b3, a.end, Epsilon, end.p)
        b5 == SetFinal(b4, a.end, FALSE)
    IN [b |-> SetFinal(b5, end.p, TRUE),
        f |-> [start |-> start.p, end |-> end.p]]

\* oneOrMore returning the star alone
oneOrMoreStarOnly(b, a) == kleeneStar(b, a)

\* concatenate(a, kleeneStar(a)): the star is built first, on a's own states
oneOrMore(b, a) ==
    LET star == kleeneStar(b, a)
    IN concatenate(star.b, a, star.f)

zeroOrOne(b, a) ==
    LET start == createState(b)
        end   == createState(start.b)
        b1 == AddTransition(end.b, start.p, Epsilon, a.start)
        b2 == AddTransition(b1, start.p, Epsilon, end.p)
        b3 == AddTransition(b2, a.end, Epsilon, end.p)
        b4 == SetFinal(b3, a.end, FALSE)
    IN [b |-> SetFinal(b4, end.p, TRUE),
        f |-> [start |-> start.p, end |-> end.p]]

(***************************************************************************)
(* Pattern constructors.  A constructor body is the sequence of its        *)
(* statements, `NFAPtr v = op(args)`, and `return op(args)` with v =       *)
(* "return"; a nested call `f(x, g(y, z))` on variables is two statements. *)
(* Run executes the statements in program order on a frame: the builder    *)
(* (.b), the local variables (.env) and the exception in flight (.thrown). *)
(***************************************************************************)
Stmt(v, op, args) == [v |-> v, op |-> op, args |-> args]

NewFrame(b) == [b |-> b, env |-> <<>>, thrown |-> "none"]

\* the frame after `NFAPtr v = r`, r being the outcome of a builder call
Bind(frame, v, r) ==
    [b      |-> r.b,
     env    |-> [x \in DOMAIN frame.env \cup {v} |->
                    IF x = v THEN r.f ELSE frame.env[x]],
     thrown |-> IF "thrown" \in DOMAIN r THEN r.thrown ELSE "none"]

(***************************************************************************)
(* The patterns of the arithmetic grammar (Final.cpp)                      *)
(***************************************************************************)
createIdentifierNFA ==
    <<Stmt("firstChar", "createCharClassNFA",
           <<Str(<<"[", "a", "-", "z", "A", "-", "Z", "_", "]">>)>>),
      Stmt("subsequentChars", "createCharClassNFA",
           <<Str(<<"[", "a", "-", "z", "A", "-", "Z", "0", "-", "9", "_", "]">>)>>),
      Stmt("zeroOrMoreSubsequent", "kleeneStar", <<"subsequentChars">>),
      Stmt("return", "concatenate", <<"firstChar", "zeroOrMoreSubsequent">>)>>

\* createNumberNFA with the digits after the dot under kleeneStar
createNumberNFAOpenDot ==
    <<Stmt("integerPart", "createCharClassNFA", <<Str(<<"[", "0", "-", "9", "]">>)>>),
      Stmt("oneOrMoreDigits", "oneOrMore", <<"integerPart">>),
      Stmt("dot", "createCharNFA", <<Ord(".")>>),
      Stmt("decimalDigits", "createCharClassNFA", <<Str(<<"[", "0", "-", "9", "]">>)>>),
      Stmt("oneOrMoreDecimal", "kleeneStar", <<"decimalDigits">>),
      Stmt("decimalPart", "concatenate", <<"dot", "oneOrMoreDecimal">>),
      Stmt("optionalDecimal", "zeroOrOne", <<"decimalPart">>),
      Stmt("return", "concatenate", <<"oneOrMoreDigits", "optionalDecimal">>)>>

createNumberNFA ==
    <<Stmt("integerPart", "createCharClassNFA", <<Str(<<"[", "0", "-", "9", "]">>)>>),
      Stmt("oneOrMoreDigits", "oneOrMore", <<"integerPart">>),
      Stmt("dot", "createCharNFA", <<Ord(".")>>),
      Stmt("decimalDigits", "createCharClassNFA", <<Str(<<"[", "0", "-", "9", "]">>)>>),
      Stmt("oneOrMoreDecimal", "oneOrMore", <<"decimalDigits">>),
      Stmt("decimalPart", "concatenate", <<"dot", "oneOrMoreDecimal">>),
      Stmt("optionalDecimal", "zeroOrOne", <<"decimalPart">>),
      Stmt("return", "concatenate", <<"oneOrMoreDigits", "optionalDecimal">>)>>

(***************************************************************************)
(* The patterns of the notation grammar (chessNot.cpp)                     *)
(***************************************************************************)
File  == Str(<<"[", "a", "-", "h", "]">>)
Rank  == Str(<<"[", "1", "-", "8", "]">>)
Piece == Str(<<"[", "K", "Q", "R", "B", "N", "]">>)
TwinPiece == Str(<<"[", "Q", "R", "B", "N", "]">>)

createMoveNumberNFA ==
    <<Stmt("digit", "createCharClassNFA", <<Str(<<"[", "0", "-", "9", "]">>)>>),
      Stmt("oneOrMoreDigits", "oneOrMore", <<"digit">>),
      Stmt("dot", "createCharNFA", <<Ord(".")>>),
      Stmt("return", "concatenate", <<"oneOrMoreDigits", "dot">>)>>

createPawnMoveNFA ==
    <<Stmt("alphabet", "createCharClassNFA", <<File>>),
      Stmt("number", "createCharClassNFA", <<Rank>>),
      Stmt("return", "concatenate", <<"alphabet", "number">>)>>

createPieceMoveNFA ==
    <<Stmt("alphabet", "createCharClassNFA", <<File>>),
      Stmt("number", "createCharClassNFA", <<Rank>>),
      Stmt("square", "concatenate", <<"alphabet", "number">>),
      Stmt("piece", "createCharClassNFA", <<Piece>>),
      Stmt("return", "concatenate", <<"piece", "square">>)>>

createTwinPieceMoveNFA ==
    <<Stmt("alphabet", "createCharClassNFA", <<File>>),
      Stmt("number", "createCharClassNFA", <<Rank>>),
      Stmt("square", "concatenate", <<"alphabet", "number">>),
      Stmt("file", "createCharClassNFA", <<File>>),
      Stmt("rank", "createCharClassNFA", <<Rank>>),
      Stmt("fileOrRank", "unionNFA", <<"file", "rank">>),
      Stmt("piece", "createCharClassNFA", <<TwinPiece>>),
      Stmt("pieceWithFileOrRank", "concatenate", <<"piece", "fileOrRank">>),
      Stmt("return", "concatenate", <<"pieceWithFileOrRank", "square">>)>>

createPawnCaptureNFA ==
    <<Stmt("alphabet", "createCharClassNFA", <<File>>),
      Stmt("number", "createCharClassNFA", <<Rank>>),
      Stmt("square", "concatenate", <<"alphabet", "number">>),
      Stmt("pawn", "createCharClassNFA", <<File>>),
      Stmt("capture", "createCharNFA", <<Ord("x")>>),
      Stmt("inner", "concatenate", <<"capture", "square">>),
      Stmt("return", "concatenate", <<"pawn", "inner">>)>>

createPieceCaptureNFA ==
    <<Stmt("alphabet", "createCharClassNFA", <<File>>),
      Stmt("number", "createCharClassNFA", <<Rank>>),
      Stmt("square", "concatenate", <<"alphabet", "number">>),
      Stmt("piece", "createCharClassNFA", <<Piece>>),
      Stmt("capture", "createCharNFA", <<Ord("x")>>),
      Stmt("inner", "concatenate", <<"capture", "square">>),
      Stmt("return", "concatenate", <<"piece", "inner">>)>>

createTwinPieceCaptureNFA ==
    <<Stmt("alphabet", "createCharClassNFA", <<File>>),
      Stmt("number", "createCharClassNFA", <<Rank>>),
      Stmt("square", "concatenate", <<"alphabet", "number">>),
      Stmt("file", "createCharClassNFA", <<File>>),
      Stmt("rank", "createCharClassNFA", <<Rank>>),
      Stmt("fileOrRank", "unionNFA", <<"file", "rank">>),
      Stmt("piece", "createCharClassNFA", <<TwinPiece>>),
      Stmt("pieceWithFileOrRank", "concatenate", <<"piece", "fileOrRank">>),
      Stmt("capture", "createCharNFA", <<Ord("x")>>),
      Stmt("inner", "concatenate", <<"capture", "square">>),
      Stmt("return", "concatenate", <<"pieceWithFileOrRank", "inner">>)>>

createCastlingNFA ==
    <<Stmt("o1", "createCharNFA", <<Ord("O")>>),
      Stmt("dash1", "createCharNFA", <<Ord("-")>>),
      Stmt("o2", "createCharNFA", <<Ord("O")>>),
      Stmt("k1", "concatenate", <<"dash1", "o2">>),
      Stmt("kingside", "concatenate", <<"o1", "k1">>),
      Stmt("o3", "createCharNFA", <<Ord("O")>>),
      Stmt("dash2", "createCharNFA", <<Ord("-")>>),
      Stmt("o4", "createCharNFA", <<Ord("O")>>),
      Stmt("dash3", "createCharNFA", <<Ord("-")>>),
      Stmt("o5", "createCharNFA", <<Ord("O")>>),
      Stmt("q1", "concatenate", <<"dash3", "o5">>),
      Stmt("q2", "concatenate", <<"o4", "q1">>),
      Stmt("q3", "concatenate", <<"dash2", "q2">>),
      Stmt("queenside", "concatenate", <<"o3", "q3">>),
      Stmt("return", "unionNFA", <<"kingside", "queenside">>)>>

createPromotionNFA ==
    <<Stmt("alphabet", "createCharClassNFA", <<File>>),
      Stmt("number", "createCharClassNFA", <<Rank>>),
      Stmt("pawn", "concatenate", <<"alphabet", "number">>),
      Stmt("promote", "createCharNFA", <<Ord("=")>>),
      Stmt("pieceToPromote", "createCharClassNFA", <<TwinPiece>>),
      Stmt("inner", "concatenate", <<"promote", "pieceToPromote">>),
      Stmt("return", "concatenate", <<"pawn", "inner">>)>>

createPromotionViaCaptureNFA ==
    <<Stmt("alphabet", "createCharClassNFA", <<File>>),
      Stmt("number", "createCharClassNFA", <<Rank>>),
      Stmt("sqaure", "concatenate", <<"alphabet", "number">>),
      Stmt("pawn", "createCharClassNFA", <<File>>),
      Stmt("capture", "createCharNFA", <<Ord("x")>>),
      Stmt("promote", "createCharNFA", <<Ord("=")>>),
      Stmt("pieceToPromote", "createCharClassNFA", <<TwinPiece>>),
      Stmt("i1", "concatenate", <<"promote", "pieceToPromote">>),
      Stmt("i2", "concatenate", <<"sqaure", "i1">>),
      Stmt("i3", "concatenate", <<"capture", "i2">>),
      Stmt("return", "concatenate", <<"pawn", "i3">>)>>

\* The nine operand constructors of createBaseMovesNFA, in source order.
BaseMoves ==
    <<"createPawnMoveNFA", "createPieceMoveNFA", "createTwinPieceMoveNFA",
      "createPawnCaptureNFA", "createPieceCaptureNFA", "createTwinPieceCaptureNFA",
      "createCastlingNFA", "createPromotionNFA", "createPromotionViaCaptureNFA">>

\* the name of the k-th operand's value, and of the union that starts at it
Operand(k) == <<"m1", "m2", "m3", "m4", "m5", "m6", "m7", "m8", "m9">>[k]
UnionAt(k) == <<"return", "u2", "u3", "u4", "u5", "u6", "u7", "u8", "m9">>[k]

\* unionNFA(BaseMoves[k](), unionNFA(BaseMoves[k+1](), ...)).  C++ leaves the
\* order in which the two arguments of a call are evaluated to the build:
\* the first operand is built before the nested union ("LeftToRight") or
\* after it ("RightToLeft").  Only the state ids depend on it.
RECURSIVE UnionFrom(_, _)
UnionFrom(k, order) ==
    IF k = 9 THEN <<Stmt(Operand(9), "call", <<BaseMoves[9]>>)>>
    ELSE IF order = "LeftToRight"
         THEN <<Stmt(Operand(k), "call", <<BaseMoves[k]>>)>>
              \o UnionFrom(k + 1, order)
              \o <<Stmt(UnionAt(k), "unionNFA", <<Operand(k), UnionAt(k + 1)>>)>>
         ELSE UnionFrom(k + 1, order)
              \o <<Stmt(Operand(k), "call", <<BaseMoves[k]>>),
                   Stmt(UnionAt(k), "unionNFA", <<Operand(k), UnionAt(k + 1)>>)>>

createBaseMovesNFA(order) == UnionFrom(1, order)

\* createCheckNFA with the sign of createCheckmateNFA
createCheckNFAHash ==
    <<Stmt("moves", "call", <<"createBaseMovesNFA">>),
      Stmt("check", "createCharNFA", <<Ord("#")>>),
      Stmt("return", "concatenate", <<"moves", "check">>)>>

createCheckNFA ==
    <<Stmt("moves", "call", <<"createBaseMovesNFA">>),
      Stmt("check", "createCharNFA", <<Ord("+")>>),
      Stmt("return", "concatenate", <<"moves", "check">>)>>

createCheckmateNFA ==
    <<Stmt("moves", "call", <<"createBaseMovesNFA">>),
      Stmt("checkmate", "createCharNFA", <<Ord("#")>>),
      Stmt("return", "concatenate", <<"moves", "checkmate">>)>>

createResultNFA ==
    <<Stmt("zero1", "createCharNFA", <<Ord("0")>>),
      Stmt("one1", "createCharNFA", <<Ord("1")>>),
      Stmt("dash1", "createCharNFA", <<Ord("-")>>),
      Stmt("w1", "concatenate", <<"dash1", "zero1">>),
      Stmt("whiteWins", "concatenate", <<"one1", "w1">>),
      Stmt("zero2", "createCharNFA", <<Ord("0")>>),
      Stmt("one2", "createCharNFA", <<Ord("1")>>),
      Stmt("dash2", "createCharNFA", <<Ord("-")>>),
      Stmt("l1", "concatenate", <<"dash2", "one2">>),
      Stmt("blackWins", "concatenate", <<"zero2", "l1">>),
      Stmt("simpleResults", "unionNFA", <<"whiteWins", "blackWins">>),
      Stmt("half1", "createCharNFA", <<Ord("1")>>),
      Stmt("slash1", "createCharNFA", <<Ord("/")>>),
      Stmt("two1", "createCharNFA", <<Ord("2")>>),
      Stmt("dash3", "createCharNFA", <<Ord("-")>>),
      Stmt("half2", "createCharNFA", <<Ord("1")>>),
      Stmt("slash2", "createCharNFA", <<Ord("/")>>),
      Stmt("two2", "createCharNFA", <<Ord("2")>>),
      Stmt("d1", "concatenate", <<"slash2", "two2">>),
      Stmt("d2", "concatenate", <<"half2", "d1">>),
      Stmt("d3", "concatenate", <<"dash3", "d2">>),
      Stmt("d4", "concatenate", <<"two1", "d3">>),
      Stmt("d5", "concatenate", <<"slash1", "d4">>),
      Stmt("draw", "concatenate", <<"half1", "d5">>),
      Stmt("return", "unionNFA", <<"simpleResults", "draw">>)>>

\* the body of a constructor, by name
Body(name, order) ==
    CASE name = "createIdentifierNFA"          -> createIdentifierNFA
      [] name = "createNumberNFA"              -> createNumberNFA
      [] name = "createMoveNumberNFA"          -> createMoveNumberNFA
      [] name = "createPawnMoveNFA"            -> createPawnMoveNFA
      [] name = "createPieceMoveNFA"           -> createPieceMoveNFA
      [] name = "createTwinPieceMoveNFA"       -> createTwinPieceMoveNFA
      [] name = "createPawnCaptureNFA"         -> createPawnCaptureNFA
      [] name = "createPieceCaptureNFA"        -> createPieceCaptureNFA
      [] name = "createTwinPieceCaptureNFA"    -> createTwinPieceCaptureNFA
      [] name = "createCastlingNFA"            -> createCastlingNFA
      [] name = "createPromotionNFA"           -> createPromotionNFA
      [] name = "createPromotionViaCaptureNFA" -> createPromotionViaCaptureNFA
      [] name = "createBaseMovesNFA"           -> createBaseMovesNFA(order)
      [] name = "createCheckNFA"               -> createCheckNFA
      [] name = "createCheckmateNFA"           -> createCheckmateNFA
      [] name = "createResultNFA"              -> createResultNFA

\* Run(class, order, body, i, frame): statements i.. of a body of the given
\* class ("Lexer" or "ChessNFA"); an exception ends the body where it is
\* thrown.  Call runs a constructor on builder b and gives the builder after
\* it, the fragment it returns and the exception it lets out.
RECURSIVE Run(_, _, _, _, _)
Call(class, order, name, b) ==
    Run(class, order, Body(name, order), 1, NewFrame(b))

Result(frame) ==
    [b |-> frame.b,
     f |-> IF frame.thrown = "none" THEN frame.env["return"] ELSE [start |-> 0, end |-> 0],
     thrown |-> frame.thrown]

Exec(class, order, s, frame) ==
    CASE s.op = "createCharNFA" ->
           Bind(frame, s.v, IF class = "Lexer"
                            THEN Lexer_createCharNFA(frame.b, s.args[1])
                            ELSE Chess_createCharNFA(frame.b, s.args[1]))
      [] s.op = "createCharClassNFA" ->
           Bind(frame, s.v, IF class = "Lexer"
                            THEN Lexer_createCharClassNFA(frame.b, s.args[1])
                            ELSE Chess_createCharClassNFA(frame.b, s.args[1]))
      [] s.op = "concatenate" ->
           Bind(frame, s.v, concatenate(frame.b, frame.env[s.args[1]], frame.env[s.args[2]]))
      [] s.op = "unionNFA" ->
           Bind(frame, s.v, unionNFA(frame.b, frame.env[s.args[1]], frame.env[s.args[2]]))
      [] s.op = "kleeneStar" -> Bind(frame, s.v, kleeneStar(frame.b, frame.env[s.args[1]]))
      [] s.op = "oneOrMore"  -> Bind(frame, s.v, oneOrMore(frame.b, frame.env[s.args[1]]))
      [] s.op = "zeroOrOne"  -> Bind(frame, s.v, zeroOrOne(frame.b, frame.env[s.args[1]]))
      [] s.op = "call" ->
           Bind(frame, s.v, Result(Call(class, order, s.args[1], frame.b)))

Run(class, order, body, i, frame) ==
    IF frame.thrown # "none" \/ i > Len(body) THEN frame
    ELSE Run(class, order, body, i + 1, Exec(class, order, body[i], frame))

(***************************************************************************)
(* epsilonClosure, getAlphabet, convertToDFA (the same code in both files) *)
(***************************************************************************)
\* the elements of a finite set of integers, ascending
RECURSIVE SortedSeq(_)
SortedSeq(S) ==
    IF S = {} THEN <<>>
    ELSE LET m == CHOOSE x \in S : \A y \in S : x <= y
         IN <<m>> \o SortedSeq(S \ {m})

\* p->transitions[c], as a set
Successors(b, p, c) == {t[2] : t \in {u \in b.states[p].transitions : u[1] = c}}

\* the loop of epsilonClosure ending after the states of the set handed over
ClosureLoopOnce(b, stack, closure) ==
    closure \cup UNION {Successors(b, stack[k], Epsilon) : k \in 1..Len(stack)}

\* the while loop of epsilonClosure: pop, push the epsilon successors not yet
\* in the closure
RECURSIVE ClosureLoop(_, _, _)
ClosureLoop(b, stack, closure) ==
    IF stack = <<>> THEN closure
    ELSE LET current == stack[Len(stack)]
             fresh   == Successors(b, current, Epsilon) \ closure
         IN ClosureLoop(b, SubSeq(stack, 1, Len(stack) - 1) \o SortedSeq(fresh),
                        closure \cup fresh)

epsilonClosure(b, states) == ClosureLoop(b, SortedSeq(states), states)

\* collectAlphabet visits every state reachable from the start over any
\* transition, once (visited holds state ids), and collects the symbols other
\* than epsilon.  The visit is depth-first in the code; the set it visits is
\* computed here a layer at a time.
RECURSIVE collectAlphabet(_, _, _)
collectAlphabet(b, frontier, acc) ==
    LET fresh == {p \in frontier : b.states[p].id \notin acc.visited}
    IN IF fresh = {} THEN acc
       ELSE collectAlphabet(b,
              UNION {{t[2] : t \in b.states[p].transitions} : p \in fresh},
              [alphabet |-> acc.alphabet \cup
                   (UNION {{t[1] : t \in b.states[p].transitions} : p \in fresh}
                      \ {Epsilon}),
               visited  |-> acc.visited \cup {b.states[p].id : p \in fresh}])

getAlphabet(b, nfa) ==
    collectAlphabet(b, {nfa.start}, [alphabet |-> {}, visited |-> {}]).alphabet

\* isFinal of a DFA state: some member of its subset is accepting
DfaIsFinalAll(b, subset) == \A s \in subset : b.states[s].isFinal
DfaIsFinal(b, subset) == \E s \in subset : b.states[s].isFinal

\* make_shared<DFAState>(dfaStateCounter++, subset), entered in dfaStateMap and
\* dfaStates, with its isFinal flag, and pushed on unprocessed
NewDfaState(b, cv, subset) ==
    [cv EXCEPT
       !.dfaStates = Append(@, [id |-> cv.dfaStateCounter, nfaStates |-> subset,
                                transitions |-> {}, isFinal |-> DfaIsFinal(b, subset)]),
       !.dfaStateMap = (subset :> (Len(cv.dfaStates) + 1)) @@ @,
       !.dfaStateCounter = @ + 1,
       !.unprocessed = Append(@, Len(cv.dfaStates) + 1)]

\* convertToDFA up to unprocessed.push(startDFA)
ConvInit(b, nfa) ==
    NewDfaState(b, [dfaStateMap |-> <<>>, dfaStates |-> <<>>, dfaStateCounter |-> 0,
                    alphabet |-> getAlphabet(b, nfa), unprocessed |-> <<>>],
                epsilonClosure(b, {nfa.start}))

\* the direct successors on c of the members of a subset
Move(b, subset, c) == UNION {Successors(b, n, c) : n \in subset}

\* currentDFA->transitions[c] = target   (a std::map: one entry per key)
SetDfaTransition(transitions, c, target) ==
    {t \in transitions : t[1] # c} \cup {<<c, target>>}

\* The body of the loop over the alphabet for one symbol c, with a transition
\* recorded per member of the subset instead of one for their union.
ConvSymbolPerMember(b, cv, currentDFA, c) ==
    LET members == {n \in cv.dfaStates[currentDFA].nfaStates : Successors(b, n, c) # {}}
        closures == {epsilonClosure(b, Successors(b, n, c)) : n \in members}
        RECURSIVE AddAll(_, _)
        AddAll(cs, acc) ==
            IF cs = {} THEN acc
            ELSE LET k == CHOOSE x \in cs : TRUE
                     a1 == IF k \in DOMAIN acc.dfaStateMap THEN acc
                           ELSE NewDfaState(b, acc, k)
                 IN AddAll(cs \ {k},
                           [a1 EXCEPT !.dfaStates[currentDFA].transitions =
                                          @ \cup {<<c, a1.dfaStateMap[k]>>}])
    IN AddAll(closures, cv)

\* The body of the loop over the alphabet for one symbol c, with a DFA state
\* made for every subset reached, in the table or not
ConvSymbolNoLookup(b, cv, currentDFA, c) ==
    IF c = Epsilon \/ Move(b, cv.dfaStates[currentDFA].nfaStates, c) = {} THEN cv
    ELSE [NewDfaState(b, cv,
                      epsilonClosure(b, Move(b, cv.dfaStates[currentDFA].nfaStates, c)))
             EXCEPT !.dfaStates[currentDFA].transitions =
                        SetDfaTransition(@, c, Len(cv.dfaStates) + 1)]

\* The body of the loop over the alphabet for one symbol c
ConvSymbol(b, cv, currentDFA, c) ==
    IF c = Epsilon THEN cv
    ELSE LET nextNFAStates == Move(b, cv.dfaStates[currentDFA].nfaStates, c)
         IN IF nextNFAStates = {} THEN cv
            ELSE LET nextClosure == epsilonClosure(b, nextNFAStates)
                     cv1 == IF nextClosure \in DOMAIN cv.dfaStateMap THEN cv
                            ELSE NewDfaState(b, cv, nextClosure)
                 IN [cv1 EXCEPT !.dfaStates[currentDFA].transitions =
                         SetDfaTransition(@, c, cv1.dfaStateMap[nextClosure])]

\* `for (char c : alphabet)`: loop is [cv, symbols], the conversion so far and
\* the symbols still to come, ascending
RECURSIVE ForEachSymbol(_, _, _)
ForEachSymbol(b, currentDFA, loop) ==
    IF loop.symbols = <<>> THEN loop.cv
    ELSE ForEachSymbol(b, currentDFA,
            [cv |-> ConvSymbol(b, loop.cv, currentDFA, Head(loop.symbols)),
             symbols |-> Tail(loop.symbols)])

\* one iteration of `while (!unprocessed.empty())`
ConvIteration(b, cv) ==
    LET currentDFA == cv.unprocessed[Len(cv.unprocessed)]
        popped == [cv EXCEPT !.unprocessed = SubSeq(@, 1, Len(@) - 1)]
    IN ForEachSymbol(b, currentDFA, [cv |-> popped, symbols |-> SortedSeq(cv.alphabet)])

RECURSIVE ConvRun(_, _)
ConvRun(b, cv) ==
    IF cv.unprocessed = <<>> THEN cv ELSE ConvRun(b, ConvIteration(b, cv))

\* convertToDFA: the DFA states reachable from startDFA, which is dfaStates[1]
convertToDFA(b, nfa) == ConvRun(b, ConvInit(b, nfa)).dfaStates

(***************************************************************************)
(* Pattern compilation: Lexer::initializeTokenDFAs (one Lexer is its own   *)
(* builder) and ChessLexer::initializeTokenDFAs (one ChessNFA builds all   *)
(* thirteen patterns).  Each entry is the builder as it is when the        *)
(* pattern is converted (.b) and the pattern's fragment (.f).              *)
(***************************************************************************)
ArgOrders == {"LeftToRight", "RightToLeft"}

LexerPatterns == <<"identifier", "number">>

ChessPatterns ==
    <<"moveNumber", "pawnMove", "pieceMove", "twinPieceMove", "pawnCapture",
      "pieceCapture", "twinPieceCapture", "castling", "promotion",
      "promotionViaCapture", "check", "checkmate", "result">>

SeqRange(q) == {q[i] : i \in 1..Len(q)}

PatternNames == SeqRange(LexerPatterns) \cup SeqRange(ChessPatterns)

\* createMoveNumberNFA for "moveNumber", ...
Constructor(name) ==
    CASE name = "identifier"          -> "createIdentifierNFA"
      [] name = "number"              -> "createNumberNFA"
      [] name = "moveNumber"          -> "createMoveNumberNFA"
      [] name = "pawnMove"            -> "createPawnMoveNFA"
      [] name = "pieceMove"           -> "createPieceMoveNFA"
      [] name = "twinPieceMove"       -> "createTwinPieceMoveNFA"
      [] name = "pawnCapture"         -> "createPawnCaptureNFA"
      [] name = "pieceCapture"        -> "createPieceCaptureNFA"
      [] name = "twinPieceCapture"    -> "createTwinPieceCaptureNFA"
      [] name = "castling"            -> "createCastlingNFA"
      [] name = "promotion"           -> "createPromotionNFA"
      [] name = "promotionViaCapture" -> "createPromotionViaCaptureNFA"
      [] name = "check"               -> "createCheckNFA"
      [] name = "checkmate"           -> "createCheckmateNFA"
      [] name = "result"              -> "createResultNFA"

\* the fragments of patterns[k..], built in that order on builder b; built
\* holds those of patterns[1..k-1]
RECURSIVE BuildFrom(_, _, _, _, _, _)
BuildFrom(class, order, patterns, k, b, built) ==
    IF k > Len(patterns) THEN built
    ELSE BuildFrom(class, order, patterns, k + 1,
                   Call(class, order, Constructor(patterns[k]), b).b,
                   Append(built, Result(Call(class, order, Constructor(patterns[k]), b))))

Lexer_initializeTokenNFAs ==
    BuildFrom("Lexer", "LeftToRight", LexerPatterns, 1, NewBuilder, <<>>)

Chess_initializeTokenNFAs ==
    [order \in ArgOrders |-> BuildFrom("ChessNFA", order, ChessPatterns, 1, NewBuilder, <<>>)]

IndexOf(q, x) == CHOOSE k \in 1..Len(q) : q[k] = x

\* the NFA of a pattern under an argument order (the arithmetic patterns do
\* not depend on it)
CompiledNFA ==
    [order \in ArgOrders |->
        [name \in PatternNames |->
            IF name \in SeqRange(LexerPatterns)
            THEN Lexer_initializeTokenNFAs[IndexOf(LexerPatterns, name)]
            ELSE Chess_initializeTokenNFAs[order][IndexOf(ChessPatterns, name)]]]

\* the DFA of a pattern: identifierDFA, numberDFA, moveNumberDFA, ...
CompiledDFA ==
    [order \in ArgOrders |->
        [name \in PatternNames |->
            convertToDFA(CompiledNFA[order][name].b, CompiledNFA[order][name].f)]]

(***************************************************************************)
(* Tokenizers.  A token is [type, value, position]; positions and the scan *)
(* index pos are 0-based as in the code, so input[pos] is input[pos + 1]   *)
(* here.  A DFA is the dfaStates vector of its conversion; its start state *)
(* is dfaStates[1].                                                        *)
(***************************************************************************)
Token(type, value, position) == [type |-> type, value |-> value, position |-> position]

\* input.substr(startPos, n)
substr(input, startPos, n) == SubSeq(input, startPos + 1, startPos + n)

\* currentState->transitions.count(c)
HasTransition(dfaStates, state, c) == \E t \in dfaStates[state].transitions : t[1] = c

\* currentState->transitions[c], for a key that is present
Target(dfaStates, state, c) == (CHOOSE t \in dfaStates[state].transitions : t[1] = c)[2]

\* the while loop of tryMatchDFA ending at the first accepting state
RECURSIVE MatchLoopFirstAccept(_, _, _, _, _)
MatchLoopFirstAccept(dfaStates, input, currentState, pos, lastAcceptPos) ==
    IF pos < Len(input) /\ HasTransition(dfaStates, currentState, input[pos + 1])
    THEN IF dfaStates[Target(dfaStates, currentState, input[pos + 1])].isFinal
         THEN pos + 1
         ELSE MatchLoopFirstAccept(dfaStates, input,
                                   Target(dfaStates, currentState, input[pos + 1]), pos + 1,
                                   lastAcceptPos)
    ELSE lastAcceptPos

\* the while loop of tryMatchDFA (the same in both files): the value is
\* lastAcceptPos when the loop ends
RECURSIVE MatchLoop(_, _, _, _, _)
MatchLoop(dfaStates, input, currentState, pos, lastAcceptPos) ==
    IF pos < Len(input) /\ HasTransition(dfaStates, currentState, input[pos + 1])
    THEN MatchLoop(dfaStates, input, Target(dfaStates, currentState, input[pos + 1]), pos + 1,
                   IF dfaStates[Target(dfaStates, currentState, input[pos + 1])].isFinal
                   THEN pos + 1 ELSE lastAcceptPos)
    ELSE lastAcceptPos

\* the token for the position the loop ended with
MatchedToken(input, startPos, type, lastAcceptPos) ==
    IF lastAcceptPos # -1
    THEN Token(type, substr(input, startPos, lastAcceptPos - startPos), startPos)
    ELSE Token("INVALID", <<>>, startPos)

Lexer_tryMatchDFA(dfaStates, input, startPos, type) ==
    MatchedToken(input, startPos, type, MatchLoop(dfaStates, input, 1, startPos, -1))

\* ChessLexer::tryMatchDFA: the return value and the out-parameter matchedValue
MatchedValue(input, startPos, lastAcceptPos) ==
    [matched |-> lastAcceptPos # -1,
     matchedValue |-> IF lastAcceptPos # -1
                      THEN substr(input, startPos, lastAcceptPos - startPos) ELSE <<>>]

Chess_tryMatchDFA(dfaStates, input, startPos) ==
    MatchedValue(input, startPos, MatchLoop(dfaStates, input, 1, startPos, -1))

\* the DFAs the lexers hold: identifierDFA, numberDFA, moveNumberDFA, ...
\* They are the members engine.dfas where the engine is followed over
\* several calls, and else as initializeTokenDFAs compiled them.
TokenDFA(name) ==
    IF engine = <<>> THEN CompiledDFA[argOrder][name] ELSE engine.dfas[name]

singleCharTokens ==
    (Ord("+") :> "OPERATOR") @@ (Ord("-") :> "OPERATOR") @@ (Ord("*") :> "OPERATOR")
    @@ (Ord("/") :> "OPERATOR") @@ (Ord("=") :> "ASSIGN")
    @@ (Ord("(") :> "LPAREN") @@ (Ord(")") :> "RPAREN")

\* getNextToken after the single-character test: the identifier token if it
\* is not INVALID, else the number token if it is not INVALID, else INVALID
FirstValid(identifierToken, numberToken, fallback) ==
    IF identifierToken.type # "INVALID" THEN identifierToken
    ELSE IF numberToken.type # "INVALID" THEN numberToken
    ELSE fallback

Lexer_getNextToken(input, startPos) ==
    IF input[startPos + 1] \in DOMAIN singleCharTokens
    THEN Token(singleCharTokens[input[startPos + 1]], <<input[startPos + 1]>>, startPos)
    ELSE FirstValid(Lexer_tryMatchDFA(TokenDFA("identifier"), input, startPos, "IDENTIFIER"),
                    Lexer_tryMatchDFA(TokenDFA("number"), input, startPos, "NUMBER"),
                    Token("INVALID", <<input[startPos + 1]>>, startPos))

\* the order in which tryMatchLongest tests the patterns, and their types
TestOrder ==
    <<"moveNumber", "result", "castling", "pawnMove", "pieceMove", "pawnCapture",
      "pieceCapture", "promotion", "twinPieceMove", "twinPieceCapture",
      "promotionViaCapture", "checkmate", "check">>

TypeOf(name) ==
    CASE name = "identifier"          -> "IDENTIFIER"
      [] name = "number"              -> "NUMBER"
      [] name = "moveNumber"          -> "MOVE_NUMBER"
      [] name = "result"              -> "RESULT"
      [] name = "castling"            -> "CASTLING"
      [] name = "pawnMove"            -> "PAWN_MOVE"
      [] name = "pieceMove"           -> "PIECE_MOVE"
      [] name = "pawnCapture"         -> "PAWN_CAPTURE"
      [] name = "pieceCapture"        -> "PIECE_CAPTURE"
      [] name = "promotion"           -> "PROMOTION"
      [] name = "twinPieceMove"       -> "TWIN_PIECE_MOVE"
      [] name = "twinPieceCapture"    -> "TWIN_PIECE_CAPTURE"
      [] name = "promotionViaCapture" -> "PROMOTION_VIA_CAPTURE"
      [] name = "checkmate"           -> "CHECKMATE"
      [] name = "check"               -> "CHECK"

\* testDFAPattern: candidates with the pattern's match pushed, if it has one
PushIfMatched(candidates, type, m) ==
    IF m.matched THEN Append(candidates, <<type, m.matchedValue>>) ELSE candidates

testDFAPattern(name, input, startPos, candidates) ==
    PushIfMatched(candidates, TypeOf(name), Chess_tryMatchDFA(TokenDFA(name), input, startPos))

\* the thirteen testDFAPattern calls, from the k-th on
RECURSIVE TestFrom(_, _, _, _)
TestFrom(k, input, startPos, candidates) ==
    IF k > Len(TestOrder) THEN candidates
    ELSE TestFrom(k + 1, input, startPos,
                  testDFAPattern(TestOrder[k], input, startPos, candidates))

\* tryMatchLongest without the loop over the candidates: the first one wins
FirstCandidate(candidates, k, longest) == longest

\* `for (candidate : candidates) if (longer than longest) longest = candidate`
RECURSIVE Longest(_, _, _)
Longest(candidates, k, longest) ==
    IF k > Len(candidates) THEN longest
    ELSE Longest(candidates, k + 1,
                 IF Len(candidates[k][2]) > Len(longest[2]) THEN candidates[k] ELSE longest)

LongestToken(candidates, startPos) ==
    IF candidates # <<>>
    THEN Token(Longest(candidates, 1, candidates[1])[1],
               Longest(candidates, 1, candidates[1])[2], startPos)
    ELSE Token("INVALID", <<>>, startPos)

tryMatchLongest(input, startPos) ==
    LongestToken(TestFrom(1, input, startPos, <<>>), startPos)

OrInvalid(token, input, startPos) ==
    IF token.type # "INVALID" THEN token
    ELSE Token("INVALID", <<input[startPos + 1]>>, startPos)

Chess_getNextToken(input, startPos) ==
    OrInvalid(tryMatchLongest(input, startPos), input, startPos)

\* the push with pos moved on by one character whatever the token
PushTokenByOne(scan, token) ==
    [scan EXCEPT !.tokens = Append(@, token), !.pos = @ + 1]

\* The locals of tokenize are scan = [pos, tokens, hadLexicalError].
\* tokens.push_back(token); pos += token.value.length()
PushToken(scan, token) ==
    [scan EXCEPT !.tokens = Append(@, token), !.pos = @ + Len(token.value)]

\* the iteration with an INVALID token skipped instead of pushed
Lexer_tokenizeIterationSkipping(input, scan) ==
    IF isspace(input[scan.pos + 1]) THEN [scan EXCEPT !.pos = @ + 1]
    ELSE IF Lexer_getNextToken(input, scan.pos).type = "INVALID"
         THEN [scan EXCEPT !.pos = @ + 1]
         ELSE PushToken(scan, Lexer_getNextToken(input, scan.pos))

\* one iteration of the while loop of Lexer::tokenize
Lexer_tokenizeIteration(input, scan) ==
    IF isspace(input[scan.pos + 1]) THEN [scan EXCEPT !.pos = @ + 1]
    ELSE PushToken(scan, Lexer_getNextToken(input, scan.pos))

\* the skip of an INVALID token without hadLexicalError = true
PushOrSkipQuietly(scan, token) ==
    IF token.type = "INVALID" THEN [scan EXCEPT !.pos = @ + 1]
    ELSE PushToken(scan, token)

\* PushOrSkip with the scan left at an INVALID token
PushOrSkipStaying(scan, token) ==
    IF token.type = "INVALID"
    THEN [scan EXCEPT !.hadLexicalError = TRUE]
    ELSE PushToken(scan, token)

\* ChessLexer::tokenize: an INVALID token is reported and skipped, not pushed
PushOrSkip(scan, token) ==
    IF token.type = "INVALID"
    THEN [scan EXCEPT !.hadLexicalError = TRUE, !.pos = @ + 1]
    ELSE PushToken(scan, token)

\* one iteration of the while loop of ChessLexer::tokenize
Chess_tokenizeIteration(input, scan) ==
    IF isspace(input[scan.pos + 1]) THEN [scan EXCEPT !.pos = @ + 1]
    ELSE PushOrSkip(scan, Chess_getNextToken(input, scan.pos))

tokenizeIteration(class, input, scan) ==
    IF class = "Lexer" THEN Lexer_tokenizeIteration(input, scan)
    ELSE Chess_tokenizeIteration(input, scan)

\* tokenize with END_OF_INPUT placed at the start of the last token
tokenizeReturnAtLastToken(scan) ==
    [scan EXCEPT !.tokens =
        Append(@, Token("END_OF_INPUT", <<>>,
                        IF scan.tokens = <<>> THEN 0
                        ELSE scan.tokens[Len(scan.tokens)].position))]

\* tokens.push_back(Token(END_OF_INPUT, "", pos)) and the return
tokenizeReturn(scan) ==
    [scan EXCEPT !.tokens = Append(@, Token("END_OF_INPUT", <<>>, scan.pos))]

NewScan == [pos |-> 0, tokens |-> <<>>, hadLexicalError |-> FALSE]

\* tokenize, from a scan to its return
RECURSIVE tokenizeFrom(_, _, _)
tokenizeFrom(class, input, scan) ==
    IF scan.pos < Len(input)
    THEN tokenizeFrom(class, input, tokenizeIteration(class, input, scan))
    ELSE tokenizeReturn(scan)

tokenize(class, input) == tokenizeFrom(class, input, NewScan)

(***************************************************************************)
(* What the tokenizers do to the DFAs they hold.  tryMatchDFA reads a      *)
(* DFAState through `transitions.count(c)` and `transitions[c]`; the       *)
(* latter is std::map::operator[], which makes an entry (a null pointer,   *)
(* 0 here) when the key has none.                                          *)
(***************************************************************************)
MapIndex(dfaStates, state, c) ==
    IF HasTransition(dfaStates, state, c) THEN dfaStates
    ELSE [dfaStates EXCEPT ![state].transitions = @ \cup {<<c, 0>>}]

\* the loop with `transitions[c]` read before the key is tested
RECURSIVE tryMatchDFAUntested(_, _, _, _)
tryMatchDFAUntested(dfaStates, input, currentState, pos) ==
    IF pos < Len(input)
    THEN IF HasTransition(dfaStates, currentState, input[pos + 1])
         THEN tryMatchDFAUntested(dfaStates, input,
                                  Target(dfaStates, currentState, input[pos + 1]), pos + 1)
         ELSE MapIndex(dfaStates, currentState, input[pos + 1])
    ELSE dfaStates

\* the DFA after the while loop of tryMatchDFA (the same in both files):
\* transitions[c] is read only for a key that count(c) has found
RECURSIVE tryMatchDFAOnDFA(_, _, _, _)
tryMatchDFAOnDFA(dfaStates, input, currentState, pos) ==
    IF pos < Len(input) /\ HasTransition(dfaStates, currentState, input[pos + 1])
    THEN tryMatchDFAOnDFA(MapIndex(dfaStates, currentState, input[pos + 1]), input,
                          Target(dfaStates, currentState, input[pos + 1]), pos + 1)
    ELSE dfaStates

\* Lexer::getNextToken: identifierDFA is tried unless the character is a
\* single-character token, numberDFA when the identifier match failed
Lexer_getNextTokenOnDFAs(dfas, input, startPos) ==
    IF input[startPos + 1] \in DOMAIN singleCharTokens THEN dfas
    ELSE IF Lexer_tryMatchDFA(dfas["identifier"], input, startPos, "IDENTIFIER").type # "INVALID"
         THEN [dfas EXCEPT !["identifier"] = tryMatchDFAOnDFA(@, input, 1, startPos)]
         ELSE [dfas EXCEPT !["identifier"] = tryMatchDFAOnDFA(@, input, 1, startPos),
                           !["number"] = tryMatchDFAOnDFA(@, input, 1, startPos)]

\* ChessLexer::tryMatchLongest: every DFA is tried
tryMatchLongestOnDFAs(dfas, input, startPos) ==
    [name \in DOMAIN dfas |-> tryMatchDFAOnDFA(dfas[name], input, 1, startPos)]

\* one iteration of the while loop of tokenize
tokenizeIterationOnDFAs(class, dfas, input, scan) ==
    IF isspace(input[scan.pos + 1]) THEN dfas
    ELSE IF class = "Lexer" THEN Lexer_getNextTokenOnDFAs(dfas, input, scan.pos)
    ELSE tryMatchLongestOnDFAs(dfas, input, scan.pos)

\* Lexer::demonstrateAutomata: two more NFAs are built with the lexer's own
\* builder and converted; idDFA and numDFA are locals
demonstrateAutomata(members) ==
    [members EXCEPT
       !.b = Call("Lexer", "LeftToRight", "createNumberNFA",
                  Call("Lexer", "LeftToRight", "createIdentifierNFA", members.b).b).b]

(***************************************************************************)
(* PDA::parse (Final.cpp).  The locals and the stack are                   *)
(* p = [stackVar, currentState, tokenIndex]; the top of the stack is the   *)
(* last element of stackVar.                                               *)
(***************************************************************************)
top(stack) == stack[Len(stack)]
pop(stack) == SubSeq(stack, 1, Len(stack) - 1)
push(stack, x) == Append(stack, x)

\* (tokenIndex < tokens.size()) ? tokens[tokenIndex] : Token(END_OF_INPUT, "", -1)
CurrentToken(toks, tokenIndex) ==
    IF tokenIndex < Len(toks) THEN toks[tokenIndex + 1]
    ELSE Token("END_OF_INPUT", <<>>, -1)

\* stackVar = stack<string>(); stackVar.push("$"); currentState = START; tokenIndex = 0
parseInit == [stackVar |-> <<"$">>, currentState |-> "START", tokenIndex |-> 0]

Goto(p, state) == [p EXCEPT !.currentState = state]
Consume(p) == [p EXCEPT !.tokenIndex = @ + 1]
SetStack(p, stack) == [p EXCEPT !.stackVar = stack]

\* the operand cases with `(` pushing only E, not `)` then E
parseOperandNoClose(p, currentToken) ==
    IF currentToken.type \in {"IDENTIFIER", "NUMBER"}
    THEN Consume(Goto(SetStack(p, pop(p.stackVar)), "IN_EXPR"))
    ELSE IF currentToken.type = "LPAREN"
    THEN Consume(Goto(p, "EXPECT_EXPR"))
    ELSE Goto(p, "REJECT")

\* the operand cases with `(` left in the input
parseOperandStaying(p, currentToken) ==
    IF currentToken.type \in {"IDENTIFIER", "NUMBER"}
    THEN Consume(Goto(SetStack(p, pop(p.stackVar)), "IN_EXPR"))
    ELSE IF currentToken.type = "LPAREN"
    THEN Goto(SetStack(p, push(push(pop(p.stackVar), ")"), "E")), "EXPECT_EXPR")
    ELSE Goto(p, "REJECT")

\* the operand cases with END_OF_INPUT taken for an empty operand
parseOperandOrEnd(p, currentToken) ==
    IF currentToken.type \in {"IDENTIFIER", "NUMBER"}
    THEN Consume(Goto(SetStack(p, pop(p.stackVar)), "IN_EXPR"))
    ELSE IF currentToken.type = "LPAREN"
    THEN Consume(Goto(SetStack(p, push(push(pop(p.stackVar), ")"), "E")), "EXPECT_EXPR"))
    ELSE IF currentToken.type = "END_OF_INPUT"
    THEN Goto(SetStack(p, pop(p.stackVar)), "IN_EXPR")
    ELSE Goto(p, "REJECT")

\* case EXPECT_EXPR and case AFTER_OPERATOR: the same body
parseOperand(p, currentToken) ==
    IF currentToken.type \in {"IDENTIFIER", "NUMBER"}
    THEN Consume(Goto(SetStack(p, pop(p.stackVar)), "IN_EXPR"))
    ELSE IF currentToken.type = "LPAREN"
    THEN Consume(Goto(SetStack(p, push(push(pop(p.stackVar), ")"), "E")), "EXPECT_EXPR"))
    ELSE Goto(p, "REJECT")

\* case IN_EXPR with `)` consumed whatever the stack top
parseInExprAnyTop(p, currentToken, stackTop) ==
    IF currentToken.type = "OPERATOR"
    THEN Consume(Goto(SetStack(p, push(p.stackVar, "E")), "AFTER_OPERATOR"))
    ELSE IF currentToken.type = "RPAREN"
    THEN Consume(Goto(IF stackTop = ")" THEN SetStack(p, pop(p.stackVar)) ELSE p, "IN_EXPR"))
    ELSE IF currentToken.type = "END_OF_INPUT" /\ stackTop = "$"
    THEN Goto(SetStack(p, pop(p.stackVar)), "ACCEPT")
    ELSE Goto(p, "REJECT")

\* case IN_EXPR with no E pushed for the operand behind an operator
parseInExprNoPush(p, currentToken, stackTop) ==
    IF currentToken.type = "OPERATOR"
    THEN Consume(Goto(p, "AFTER_OPERATOR"))
    ELSE IF currentToken.type = "RPAREN" /\ stackTop = ")"
    THEN Consume(Goto(SetStack(p, pop(p.stackVar)), "IN_EXPR"))
    ELSE IF currentToken.type = "END_OF_INPUT" /\ stackTop = "$"
    THEN Goto(SetStack(p, pop(p.stackVar)), "ACCEPT")
    ELSE Goto(p, "REJECT")

\* case IN_EXPR with END_OF_INPUT consumed on the way to ACCEPT
parseInExprConsumingEnd(p, currentToken, stackTop) ==
    IF currentToken.type = "OPERATOR"
    THEN Consume(Goto(SetStack(p, push(p.stackVar, "E")), "AFTER_OPERATOR"))
    ELSE IF currentToken.type = "RPAREN" /\ stackTop = ")"
    THEN Consume(Goto(SetStack(p, pop(p.stackVar)), "IN_EXPR"))
    ELSE IF currentToken.type = "END_OF_INPUT" /\ stackTop = "$"
    THEN Consume(Goto(SetStack(p, pop(p.stackVar)), "ACCEPT"))
    ELSE Goto(p, "REJECT")

\* case IN_EXPR with an INVALID token consumed
parseInExprSkipping(p, currentToken, stackTop) ==
    IF currentToken.type = "OPERATOR"
    THEN Consume(Goto(SetStack(p, push(p.stackVar, "E")), "AFTER_OPERATOR"))
    ELSE IF currentToken.type = "RPAREN" /\ stackTop = ")"
    THEN Consume(Goto(SetStack(p, pop(p.stackVar)), "IN_EXPR"))
    ELSE IF currentToken.type = "END_OF_INPUT" /\ stackTop = "$"
    THEN Goto(SetStack(p, pop(p.stackVar)), "ACCEPT")
    ELSE IF currentToken.type = "INVALID"
    THEN Consume(p)
    ELSE Goto(p, "REJECT")

\* case IN_EXPR
parseInExpr(p, currentToken, stackTop) ==
    IF currentToken.type = "OPERATOR"
    THEN Consume(Goto(SetStack(p, push(p.stackVar, "E")), "AFTER_OPERATOR"))
    ELSE IF currentToken.type = "RPAREN" /\ stackTop = ")"
    THEN Consume(Goto(SetStack(p, pop(p.stackVar)), "IN_EXPR"))
    ELSE IF currentToken.type = "END_OF_INPUT" /\ stackTop = "$"
    THEN Goto(SetStack(p, pop(p.stackVar)), "ACCEPT")
    ELSE Goto(p, "REJECT")

\* the switch on currentState, for the current token and stack top
parseSwitch(toks, p, currentToken, stackTop) ==
    CASE p.currentState = "START" ->
           IF currentToken.type = "IDENTIFIER"
           THEN IF p.tokenIndex + 1 < Len(toks) /\ toks[p.tokenIndex + 2].type = "ASSIGN"
                THEN Consume(Goto(p, "EXPECT_ASSIGNMENT"))
                ELSE Goto(SetStack(p, push(p.stackVar, "E")), "EXPECT_EXPR")
           ELSE IF currentToken.type \in {"NUMBER", "LPAREN"}
           THEN Goto(SetStack(p, push(p.stackVar, "E")), "EXPECT_EXPR")
           ELSE Goto(p, "REJECT")
      [] p.currentState = "EXPECT_ASSIGNMENT" ->
           IF currentToken.type = "ASSIGN"
           THEN Consume(Goto(p, "AFTER_ASSIGNMENT"))
           ELSE Goto(p, "REJECT")
      [] p.currentState = "AFTER_ASSIGNMENT" ->
           Goto(SetStack(p, push(p.stackVar, "E")), "EXPECT_EXPR")
      [] p.currentState = "EXPECT_EXPR" -> parseOperand(p, currentToken)
      [] p.currentState = "IN_EXPR" -> parseInExpr(p, currentToken, stackTop)
      [] p.currentState = "AFTER_OPERATOR" -> parseOperand(p, currentToken)
      [] OTHER -> Goto(p, "REJECT")

\* one iteration of the while loop, up to the test of tokenIndex
parseIteration(toks, p) ==
    parseSwitch(toks, p, CurrentToken(toks, p.tokenIndex), top(p.stackVar))

\* if (tokenIndex > tokens.size() + 5) return false
LoopDetected(toks, p) == p.tokenIndex > Len(toks) + 5

(***************************************************************************)
(* ChessSyntaxValidator and ChessPDA (chessNot.cpp)                        *)
(***************************************************************************)
isMoveToken(type) ==
    type \in {"PAWN_MOVE", "PIECE_MOVE", "TWIN_PIECE_MOVE", "PAWN_CAPTURE",
              "PIECE_CAPTURE", "TWIN_PIECE_CAPTURE", "CASTLING", "PROMOTION",
              "PROMOTION_VIA_CAPTURE", "CHECK", "CHECKMATE"}

isPrimaryMove(token) ==
    token.type = "MOVE_NUMBER" \/ isMoveToken(token.type) \/ token.type = "RESULT"

\* validateMoveSyntax with MOVE_NUMBER and RESULT tokens not counted
validateMoveSyntaxMovesOnly(toks) ==
    ~\E k \in 1..(Len(toks) - 1) :
         /\ isMoveToken(toks[k].type) /\ isMoveToken(toks[k + 1].type)
         /\ toks[k].position + Len(toks[k].value) = toks[k + 1].position

\* validateMoveSyntax: no two primary tokens touch.  tokens.size() - 1 is
\* taken in size_t; tokenize never returns an empty vector.
validateMoveSyntax(toks) ==
    ~\E k \in 1..(Len(toks) - 1) :
         /\ isPrimaryMove(toks[k]) /\ isPrimaryMove(toks[k + 1])
         /\ toks[k].position + Len(toks[k].value) = toks[k + 1].position

\* stoi on a string of decimal digits: its value, or the exception
\* (invalid_argument on the empty string, out_of_range above INT_MAX)
IntMax == 2147483647

RECURSIVE Decimal(_, _, _)
Decimal(digits, k, acc) ==
    IF k > Len(digits) THEN acc
    ELSE Decimal(digits, k + 1, acc * 10 + (digits[k] - Ord("0")))

stoi(str) ==
    IF Len(str) = 0 \/ Len(str) > 10 \/ Decimal(str, 1, 0) > IntMax
    THEN [thrown |-> TRUE, value |-> 0]
    ELSE [thrown |-> FALSE, value |-> Decimal(str, 1, 0)]

\* resetPDA
resetPDA == [expectedMoveNumber |-> 1, currentState |-> "EXPECT_NUMBER"]

\* The locals of validateMoveSequence are
\* v = [i, currentState, expectedMoveNumber, returned, warned]: returned is
\* "none" while the loop runs, "break" after a break, else the value
\* returned; warned records that the half-move warning was printed.
validateInit ==
    [i |-> 0, currentState |-> resetPDA.currentState,
     expectedMoveNumber |-> resetPDA.expectedMoveNumber,
     returned |-> "none", warned |-> FALSE]

Return(v, value) == [v EXCEPT !.returned = value]
Continue(v) == [v EXCEPT !.i = @ + 1]

\* the MOVE_NUMBER branch without the comparison with expectedMoveNumber
validateMoveNumberAny(v, moveNumber) ==
    IF moveNumber.thrown THEN Return(v, "false")
    ELSE Continue([v EXCEPT !.expectedMoveNumber = @ + 1,
                            !.currentState = "EXPECT_WHITE_MOVE"])

\* the MOVE_NUMBER branch, moveNumber being the outcome of stoi
validateMoveNumber(v, moveNumber) ==
    IF moveNumber.thrown THEN Return(v, "false")
    ELSE IF moveNumber.value # v.expectedMoveNumber THEN Return(v, "false")
    ELSE Continue([v EXCEPT !.expectedMoveNumber = @ + 1,
                            !.currentState = "EXPECT_WHITE_MOVE"])

\* the GAME_OVER branch with every token let through
validateGameOverLenient(v, token) ==
    IF token.type = "END_OF_INPUT" THEN Return(v, "break") ELSE Continue(v)

\* if (currentState == MoveState::GAME_OVER) { ... }
validateGameOver(v, token) ==
    IF token.type = "END_OF_INPUT" THEN Return(v, "break") ELSE Return(v, "false")

\* the move branch without the look-ahead after a CHECKMATE token
validateMoveNoLookAhead(toks, v, token) ==
    IF v.currentState = "EXPECT_WHITE_MOVE"
    THEN Continue([v EXCEPT !.currentState = "EXPECT_BLACK_MOVE"])
    ELSE IF v.currentState = "EXPECT_BLACK_MOVE"
         THEN Continue([v EXCEPT !.currentState = "EXPECT_NUMBER"])
         ELSE Return(v, "false")

\* the move branch with a move let through in EXPECT_NUMBER
validateMoveAnyState(toks, v, token) ==
    IF token.type = "CHECKMATE"
       /\ ~(v.i + 1 < Len(toks) /\ toks[v.i + 2].type = "RESULT")
    THEN Return(v, "false")
    ELSE IF v.currentState = "EXPECT_WHITE_MOVE"
         THEN Continue([v EXCEPT !.currentState = "EXPECT_BLACK_MOVE"])
         ELSE Continue([v EXCEPT !.currentState = "EXPECT_NUMBER"])

\* if (isMoveToken(token.type)) { ... }; tokens[i+1] is toks[v.i + 2]
validateMove(toks, v, token) ==
    IF token.type = "CHECKMATE"
       /\ ~(v.i + 1 < Len(toks) /\ toks[v.i + 2].type = "RESULT")
    THEN Return(v, "false")
    ELSE IF v.currentState = "EXPECT_WHITE_MOVE"
         THEN Continue([v EXCEPT !.currentState = "EXPECT_BLACK_MOVE"])
         ELSE IF v.currentState = "EXPECT_BLACK_MOVE"
              THEN Continue([v EXCEPT !.currentState = "EXPECT_NUMBER"])
              ELSE Return(v, "false")

\* the body of the for loop for token = tokens[i]
validateIteration(toks, v, token) ==
    IF v.currentState = "GAME_OVER"
    THEN validateGameOver(v, token)
    ELSE IF token.type = "END_OF_INPUT"
    THEN IF v.currentState = "EXPECT_WHITE_MOVE" THEN Return(v, "false")
         ELSE IF v.currentState = "EXPECT_BLACK_MOVE"
              THEN Return([v EXCEPT !.warned = TRUE], "break")
              ELSE Return(v, "break")
    ELSE IF token.type = "RESULT"
    THEN Continue([v EXCEPT !.currentState = "GAME_OVER"])
    ELSE IF token.type = "MOVE_NUMBER"
    THEN IF v.currentState # "EXPECT_NUMBER" THEN Return(v, "false")
         ELSE validateMoveNumber(v, stoi(substr(token.value, 0, Len(token.value) - 1)))
    ELSE IF isMoveToken(token.type)
    THEN validateMove(toks, v, token)
    ELSE Continue(v)

\* the loop condition: i + 1 < tokens.size()
validateLoopTest(toks, v) == v.i + 1 < Len(toks)

(***************************************************************************)
(* Inputs                                                                  *)
(***************************************************************************)
MaxInput == 3     \* characters (Lexer) or pieces (ChessLexer) of a scanned input
MaxTokens == 5    \* tokens before END_OF_INPUT in a vector handed to PDA::parse
MaxWords == 5     \* words of a game handed to processInput

Seqs(S, n) == UNION {[1..k -> S] : k \in 0..n}

RECURSIVE Flatten(_)
Flatten(q) == IF q = <<>> THEN <<>> ELSE Head(q) \o Flatten(Tail(q))

\* words separated by single spaces
RECURSIVE Join(_)
Join(q) ==
    IF q = <<>> THEN <<>>
    ELSE IF Len(q) = 1 THEN q[1]
    ELSE q[1] \o <<Ord(" ")>> \o Join(Tail(q))

\* a letter, an underscore, a digit, the dot, a blank, two single-character
\* tokens and a character of no class
LexerChars ==
    {Ord("a"), Ord("_"), Ord("1"), Ord("."), Ord(" "), Ord("+"), Ord("("), Ord("@")}

LexerInputs == Seqs(LexerChars, MaxInput)

\* pieces of moves, so that the classes overlap: e4, e4+, e4=Q, exe4,
\* exe4=Q, Ne4, Nexe4, O-O, O-O-O, O-O+, 1., and pieces of no class
ChessPieces ==
    {Str(<<"e", "4">>), Str(<<"e", "x">>), Str(<<"=", "Q">>), Str(<<"+">>),
     Str(<<"N">>), Str(<<"O", "-", "O">>), Str(<<"-", "O">>), Str(<<"1", ".">>),
     Str(<<" ">>)}

ChessLexerInputs == {Flatten(q) : q \in Seqs(ChessPieces, MaxInput)}

ScanInputs(cls) == IF cls = "Lexer" THEN LexerInputs ELSE ChessLexerInputs

ChessWords ==
    {Str(<<"1", ".">>), Str(<<"2", ".">>), Str(<<"3", ".">>), Str(<<"e", "4">>),
     Str(<<"e", "5">>), Str(<<"N", "f", "3">>)}

\* a move number, a move, a checkmate and a result
ResultWords ==
    {Str(<<"1", ".">>), Str(<<"e", "4">>), Str(<<"e", "4", "#">>), Str(<<"1", "-", "0">>)}

GameInputs ==
    {Join(q) : q \in Seqs(ChessWords, MaxWords)}
        \cup {Join(q) : q \in Seqs(ResultWords, MaxWords)}

\* the token types of Final.cpp other than END_OF_INPUT
BodyTypes ==
    {"IDENTIFIER", "NUMBER", "OPERATOR", "ASSIGN", "LPAREN", "RPAREN", "INVALID"}

\* a vector of tokens of the given types, ended by END_OF_INPUT, as tokenize
\* returns them (values do not matter to parse)
Vector(types) ==
    [k \in 1..(Len(types) + 1) |->
        IF k <= Len(types) THEN Token(types[k], <<>>, k - 1)
        ELSE Token("END_OF_INPUT", <<>>, Len(types))]

TokenVectors == {Vector(types) : types \in Seqs(BodyTypes, MaxTokens)}

(***************************************************************************)
(* State                                                                   *)
(***************************************************************************)
TypeOK ==
    /\ phase \in {"converting", "matching", "scanning", "scanned", "parsing", "parsed",
                  "tokenize", "syntax", "validating", "done",
                  "building", "built", "thrown", "diverged", "converted", "read",
                  "ready", "tokenizing", "called", "returned", "combining", "closing", "closed",
                  "reading", "matched", "entered", "popping", "testing", "analyzing", "expanding",
                  "expanded", "starting", "playing"}
    /\ argOrder \in ArgOrders
    /\ result \in {"none", "true", "false"}

ConvIdle == pattern = "none" /\ conv = <<>> /\ nfaCur = {} /\ dfaCur = 0 /\ build = <<>>
ScanIdle == lexer = "none" /\ line = <<>> /\ lex = NewScan /\ engine = <<>>
ParseIdle == tokens = <<>> /\ parse = parseInit
ChessIdle == syntaxValid = FALSE /\ moves = validateInit
CallIdle == validator = <<>>

(***************************************************************************)
(* Specification Spec: one convertToDFA call on a compiled pattern, one    *)
(* loop iteration per step; then the NFA (simulated with epsilonClosure)   *)
(* and the returned DFA read the same word, one character per step.        *)
(***************************************************************************)
\* the characters a word is made of: every char but NUL, which the builder
\* reserves for epsilon
InputChars == 1..127

TheNFA == CompiledNFA[argOrder][pattern]

\* currentState->transitions.count(c) ? currentState->transitions[c] : none
DfaStep(dfaStates, state, c) ==
    IF state = 0 \/ ~HasTransition(dfaStates, state, c) THEN 0
    ELSE Target(dfaStates, state, c)

Init ==
    /\ pattern \in PatternNames
    /\ argOrder \in ArgOrders
    /\ conv = ConvInit(TheNFA.b, TheNFA.f)
    /\ phase = "converting"
    /\ nfaCur = {}
    /\ dfaCur = 0
    /\ build = <<>>
    /\ result = "none"
    /\ ScanIdle /\ ParseIdle /\ ChessIdle /\ CallIdle

\* one iteration of the while loop of convertToDFA
ConvertStep ==
    /\ phase = "converting"
    /\ conv.unprocessed # <<>>
    /\ conv' = ConvIteration(TheNFA.b, conv)
    /\ UNCHANGED <<callVars, pattern, nfaCur, dfaCur, build, scanVars, parseVars, chessVars, sharedVars>>

\* return startDFA; both automata are at their start
ConvertReturn ==
    /\ phase = "converting"
    /\ conv.unprocessed = <<>>
    /\ phase' = "matching"
    /\ nfaCur' = epsilonClosure(TheNFA.b, {TheNFA.f.start})
    /\ dfaCur' = 1
    /\ UNCHANGED <<callVars, pattern, conv, build, scanVars, parseVars, chessVars, argOrder, result>>

\* both automata read the character c
Feed(c) ==
    /\ phase = "matching"
    /\ nfaCur' = epsilonClosure(TheNFA.b, Move(TheNFA.b, nfaCur, c))
    /\ dfaCur' = DfaStep(conv.dfaStates, dfaCur, c)
    /\ UNCHANGED <<callVars, pattern, conv, build, scanVars, parseVars, chessVars, sharedVars>>

Next == ConvertStep \/ ConvertReturn \/ \E c \in InputChars : Feed(c)

Spec == Init /\ [][Next]_vars

(***************************************************************************)
(* Specification SpecTokenize: Lexer::tokenize or ChessLexer::tokenize on  *)
(* one line, one loop iteration per step.                                 *)
(***************************************************************************)
TokenizeInit ==
    /\ lexer \in {"Lexer", "ChessLexer"}
    /\ argOrder \in (IF lexer = "Lexer" THEN {"LeftToRight"} ELSE ArgOrders)
    /\ line \in ScanInputs(lexer)
    /\ lex = NewScan
    /\ engine = <<>>
    /\ phase = "scanning"
    /\ result = "none"
    /\ ConvIdle /\ ParseIdle /\ ChessIdle /\ CallIdle

\* one iteration of `while (pos < length)`
TokenizeStep ==
    /\ phase = "scanning"
    /\ lex.pos < Len(line)
    /\ lex' = tokenizeIteration(lexer, line, lex)
    /\ UNCHANGED <<callVars, lexer, line, engine, convVars, parseVars, chessVars, sharedVars>>

\* the loop ends: END_OF_INPUT is pushed and the vector returned
TokenizeReturn ==
    /\ phase = "scanning"
    /\ ~(lex.pos < Len(line))
    /\ lex' = tokenizeReturn(lex)
    /\ phase' = "scanned"
    /\ UNCHANGED <<callVars, lexer, line, engine, convVars, parseVars, chessVars, argOrder, result>>

TokenizeNext == TokenizeStep \/ TokenizeReturn

SpecTokenize == TokenizeInit /\ [][TokenizeNext]_vars

\* Specification SpecTokenizeFair: tokenize on lines of a few pieces, among
\* them a token of two characters, a blank and a character no pattern has.
\* tokenize is a loop in a single thread: it goes on while it can.
MaxPieces == 2    \* pieces of a line tokenize is followed on to its end

LexerPieces == {Str(<<"a", "1">>), Str(<<"1", ".">>), Str(<<" ">>), Str(<<"@">>), Str(<<"+">>)}

ChessLexerPieces ==
    {Str(<<"e", "4">>), Str(<<"1", ".">>), Str(<<" ">>), Str(<<"@">>), Str(<<"+">>)}

FairInputs ==
    [class \in {"Lexer", "ChessLexer"} |->
        {Flatten(q) : q \in Seqs(IF class = "Lexer" THEN LexerPieces ELSE ChessLexerPieces,
                                 MaxPieces)}]

TokenizeFairInit ==
    /\ lexer \in {"Lexer", "ChessLexer"}
    /\ argOrder = "LeftToRight"
    /\ line \in FairInputs[lexer]
    /\ lex = NewScan
    /\ engine = <<>>
    /\ phase = "scanning"
    /\ result = "none"
    /\ ConvIdle /\ ParseIdle /\ ChessIdle /\ CallIdle

SpecTokenizeFair == TokenizeFairInit /\ [][TokenizeNext]_vars /\ WF_vars(TokenizeNext)

(***************************************************************************)
(* Specification SpecPDA: PDA::parse on one token vector, one loop         *)
(* iteration per step.                                                     *)
(***************************************************************************)
ParseInit ==
    /\ tokens \in TokenVectors
    /\ parse = parseInit
    /\ phase = "parsing"
    /\ result = "none"
    /\ argOrder = "LeftToRight"
    /\ ConvIdle /\ ScanIdle /\ ChessIdle /\ CallIdle

\* one iteration of the while loop; it returns false when tokenIndex has
\* passed tokens.size() + 5
ParseStep ==
    /\ phase = "parsing"
    /\ parse.currentState \notin {"ACCEPT", "REJECT"}
    /\ parse' = parseIteration(tokens, parse)
    /\ IF LoopDetected(tokens, parse')
       THEN phase' = "parsed" /\ result' = "false"
       ELSE UNCHANGED <<phase, result>>
    /\ UNCHANGED <<callVars, tokens, convVars, scanVars, chessVars, argOrder>>

\* the loop ends: return currentState == ACCEPT
ParseReturn ==
    /\ phase = "parsing"
    /\ parse.currentState \in {"ACCEPT", "REJECT"}
    /\ result' = IF parse.currentState = "ACCEPT" THEN "true" ELSE "false"
    /\ phase' = "parsed"
    /\ UNCHANGED <<callVars, parseVars, convVars, scanVars, chessVars, argOrder>>

ParseNext == ParseStep \/ ParseReturn

SpecPDA == ParseInit /\ [][ParseNext]_vars

(***************************************************************************)
(* Specification SpecAnalyze: CompilerFrontEnd::analyzeInput on one line:  *)
(* tokenize, then PDA::parse one loop iteration per step.  result is       *)
(* syntaxValid, which is also the overall verdict.                         *)
(***************************************************************************)
MaxExpr == 4      \* characters of a line handed to analyzeInput

\* a letter, a digit, an operator, the parentheses, the assignment sign and
\* a character of no class
ExprChars == {Ord("a"), Ord("1"), Ord("+"), Ord("("), Ord(")"), Ord("="), Ord("@")}

ExprInputs == Seqs(ExprChars, MaxExpr)

AnalyzeInit ==
    /\ lexer = "Lexer"
    /\ line \in ExprInputs
    /\ lex = NewScan
    /\ engine = <<>>
    /\ phase = "analyzing"
    /\ result = "none"
    /\ argOrder = "LeftToRight"
    /\ ConvIdle /\ ParseIdle /\ ChessIdle /\ CallIdle

\* vector<Token> tokens = lexer->tokenize(input); pda->parse(tokens) begins
AnalyzeTokenize ==
    /\ phase = "analyzing"
    /\ tokens' = tokenize(lexer, line).tokens
    /\ parse' = parseInit
    /\ phase' = "parsing"
    /\ UNCHANGED <<callVars, convVars, scanVars, chessVars, argOrder, result>>

AnalyzeNext == AnalyzeTokenize \/ ParseStep \/ ParseReturn

SpecAnalyze == AnalyzeInit /\ [][AnalyzeNext]_vars

(***************************************************************************)
(* Specification SpecChess: ChessParserSimulator::processInput on one      *)
(* game: tokenize, validateMoveSyntax, then validateMoveSequence one loop  *)
(* iteration per step.  result is pdaValid.                                *)
(***************************************************************************)
\* the tokens of a line are the same under both argument orders, which
\* differ in the numbering of the NFA states only; one order is followed
ChessInit ==
    /\ lexer = "ChessLexer"
    /\ argOrder = "LeftToRight"
    /\ line \in GameInputs
    /\ lex = NewScan
    /\ engine = <<>>
    /\ phase = "tokenize"
    /\ result = "none"
    /\ ConvIdle /\ ParseIdle /\ ChessIdle /\ CallIdle

\* auto [tokens, hadLexicalError] = lexer.tokenize(line)
ProcessTokenize ==
    /\ phase = "tokenize"
    /\ lex' = tokenize(lexer, line)
    /\ phase' = "syntax"
    /\ UNCHANGED <<callVars, lexer, line, engine, convVars, parseVars, chessVars, argOrder, result>>

\* syntaxValid = validateMoveSyntax(tokens); validateMoveSequence starts
\* with resetPDA
ProcessSyntax ==
    /\ phase = "syntax"
    /\ syntaxValid' = validateMoveSyntax(lex.tokens)
    /\ moves' = validateInit
    /\ phase' = "validating"
    /\ UNCHANGED <<callVars, scanVars, convVars, parseVars, argOrder, result>>

\* one iteration of the for loop of validateMoveSequence
ValidateStep ==
    /\ phase = "validating"
    /\ moves.returned = "none"
    /\ validateLoopTest(lex.tokens, moves)
    /\ moves' = validateIteration(lex.tokens, moves, lex.tokens[moves.i + 1])
    /\ UNCHANGED <<callVars, syntaxValid, scanVars, convVars, parseVars, sharedVars>>

\* a return in the loop, or `return true` after it
ValidateReturn ==
    /\ phase = "validating"
    /\ moves.returned # "none" \/ ~validateLoopTest(lex.tokens, moves)
    /\ result' = IF moves.returned = "false" THEN "false" ELSE "true"
    /\ phase' = "done"
    /\ UNCHANGED <<callVars, chessVars, scanVars, convVars, parseVars, argOrder>>

ChessNext == ProcessTokenize \/ ProcessSyntax \/ ValidateStep \/ ValidateReturn

SpecChess == ChessInit /\ [][ChessNext]_vars

(***************************************************************************)
(* Specification SpecSyntax: processInput on lines whose pieces touch      *)
(***************************************************************************)
\* "e4e5", "1.e4" and "1. e4 e5"
TouchingMoves == Str(<<"e", "4", "e", "5">>)
TouchingNumber == Str(<<"1", ".", "e", "4">>)
SpacedTurn == Join(<<Str(<<"1", ".">>), Str(<<"e", "4">>), Str(<<"e", "5">>)>>)

SyntaxInputs == ChessLexerInputs \cup {TouchingMoves, TouchingNumber, SpacedTurn}

SyntaxInit ==
    /\ lexer = "ChessLexer"
    /\ argOrder = "LeftToRight"
    /\ line \in SyntaxInputs
    /\ lex = NewScan
    /\ engine = <<>>
    /\ phase = "tokenize"
    /\ result = "none"
    /\ ConvIdle /\ ParseIdle /\ ChessIdle /\ CallIdle

SpecSyntax == SyntaxInit /\ [][ChessNext]_vars

\* overallValid = syntaxValid && pdaValid && !hadLexicalError
overallValid == syntaxValid /\ result = "true" /\ ~lex.hadLexicalError

(***************************************************************************)
(* Specification SpecClass: one createCharClassNFA call of a builder       *)
(* (class Lexer, class ChessNFA) on a class specification; when it         *)
(* returns, the fragment is converted with convertToDFA, and the fragment  *)
(* and the DFA read one character.                                         *)
(***************************************************************************)
MaxContent == 4   \* characters between the brackets of a class specification

\* the characters of a content: the dash, two letters and the last char
ContentChars == {Ord("-"), Ord("a"), Ord("c"), CharMax}

\* a content in brackets, and the same with a bracket or both missing
ClassSpecs ==
    UNION {{<<Ord("[")>> \o q \o <<Ord("]")>>, <<Ord("[")>> \o q, q \o <<Ord("]")>>, q} :
              q \in Seqs(ContentChars, MaxContent)}

\* the characters read: those of a content, and a letter between the two
FedChars == ContentChars \cup {Ord("b")}

\* a builder is new, or has built a fragment before
BuildersBefore(class) ==
    {NewBuilder,
     IF class = "Lexer" THEN Lexer_createCharNFA(NewBuilder, Ord("x")).b
     ELSE Chess_createCharNFA(NewBuilder, Ord("x")).b}

parseCharacterClass(class, charClass) ==
    IF class = "Lexer" THEN Lexer_parseCharacterClass(charClass)
    ELSE Chess_parseCharacterClass(charClass)

createCharClassNFA(class, b, charClass) ==
    IF class = "Lexer" THEN Lexer_createCharClassNFA(b, charClass)
    ELSE Chess_createCharClassNFA(b, charClass)

ClassInit ==
    /\ lexer \in {"Lexer", "ChessNFA"}
    /\ pattern \in ClassSpecs
    /\ build \in {[before |-> b, parsed |-> <<>>, out |-> <<>>] : b \in BuildersBefore(lexer)}
    /\ phase = "building"
    /\ argOrder = "LeftToRight"
    /\ conv = <<>> /\ nfaCur = {} /\ dfaCur = 0
    /\ line = <<>> /\ lex = NewScan /\ engine = <<>>
    /\ result = "none"
    /\ ParseIdle /\ ChessIdle /\ CallIdle

\* createCharClassNFA(pattern): it returns a fragment, throws, or does not
\* come back from parseCharacterClass
CreateCharClass ==
    /\ phase = "building"
    /\ build' = [build EXCEPT
                   !.parsed = parseCharacterClass(lexer, pattern),
                   !.out = createCharClassNFA(lexer, build.before, pattern)]
    /\ phase' = CASE parseCharacterClass(lexer, pattern).thrown = "none" -> "built"
                  [] parseCharacterClass(lexer, pattern).thrown = "diverges" -> "diverged"
                  [] OTHER -> "thrown"
    /\ UNCHANGED <<callVars, pattern, conv, nfaCur, dfaCur, scanVars, parseVars, chessVars,
                   argOrder, result>>

\* convertToDFA on the returned fragment; both automata are at their start
ClassConvert ==
    /\ phase = "built"
    /\ conv' = ConvRun(build.out.b, ConvInit(build.out.b, build.out.f))
    /\ nfaCur' = epsilonClosure(build.out.b, {build.out.f.start})
    /\ dfaCur' = 1
    /\ phase' = "converted"
    /\ UNCHANGED <<callVars, pattern, build, scanVars, parseVars, chessVars, argOrder, result>>

\* both automata read the one-character string c
ClassFeed(c) ==
    /\ phase = "converted"
    /\ nfaCur' = epsilonClosure(build.out.b, Move(build.out.b, nfaCur, c))
    /\ dfaCur' = DfaStep(conv.dfaStates, dfaCur, c)
    /\ line' = <<c>>
    /\ phase' = "read"
    /\ UNCHANGED <<callVars, pattern, conv, build, lexer, lex, engine, parseVars, chessVars, argOrder, result>>

ClassNext == CreateCharClass \/ ClassConvert \/ \E c \in FedChars : ClassFeed(c)

SpecClass == ClassInit /\ [][ClassNext]_vars

(***************************************************************************)
(* Specification SpecEngine: one lexer, constructed once, serves several   *)
(* calls: tokenize on any line, one loop iteration per step, and, for      *)
(* Lexer, demonstrateAutomata.                                             *)
(***************************************************************************)
MaxCalls == 2    \* calls made on one lexer
MaxLine == 2     \* characters (Lexer) or pieces (ChessLexer) of a line

EngineInputs(lx) ==
    IF lx = "Lexer"
    THEN Seqs({Ord("a"), Ord("1"), Ord("@")}, MaxLine)
    ELSE {Flatten(q) : q \in Seqs({Str(<<"e", "4">>), Str(<<"+">>), Str(<<" ">>)}, MaxLine)}

\* the members after the constructor: Lexer is its own builder,
\* ChessLexer's builder is a local of initializeTokenDFAs
Constructed(lx, order) ==
    [b     |-> IF lx = "Lexer" THEN Lexer_initializeTokenNFAs[Len(LexerPatterns)].b
               ELSE NewBuilder,
     dfas  |-> [name \in (IF lx = "Lexer" THEN SeqRange(LexerPatterns)
                          ELSE SeqRange(ChessPatterns)) |-> CompiledDFA[order][name]],
     calls |-> 0,
     first |-> <<>>]

EngineInit ==
    /\ lexer \in {"Lexer", "ChessLexer"}
    /\ argOrder \in (IF lexer = "Lexer" THEN {"LeftToRight"} ELSE ArgOrders)
    /\ engine = Constructed(lexer, argOrder)
    /\ line = <<>>
    /\ lex = NewScan
    /\ phase = "ready"
    /\ result = "none"
    /\ ConvIdle /\ ParseIdle /\ ChessIdle /\ CallIdle

\* tokenize(s) is called
EngineTokenize(s) ==
    /\ phase = "ready"
    /\ engine.calls < MaxCalls
    /\ line' = s
    /\ lex' = NewScan
    /\ engine' = [engine EXCEPT !.calls = @ + 1]
    /\ phase' = "tokenizing"
    /\ UNCHANGED <<callVars, lexer, convVars, parseVars, chessVars, argOrder, result>>

\* one iteration of `while (pos < length)`
EngineStep ==
    /\ phase = "tokenizing"
    /\ lex.pos < Len(line)
    /\ lex' = tokenizeIteration(lexer, line, lex)
    /\ engine' = [engine EXCEPT !.dfas = tokenizeIterationOnDFAs(lexer, @, line, lex)]
    /\ UNCHANGED <<callVars, lexer, line, convVars, parseVars, chessVars, sharedVars>>

\* tokenize returns; engine.first keeps the first line and its tokens
EngineReturn ==
    /\ phase = "tokenizing"
    /\ ~(lex.pos < Len(line))
    /\ lex' = tokenizeReturn(lex)
    /\ engine' = [engine EXCEPT !.first =
                     IF @ = <<>> THEN [input |-> line, tokens |-> tokenizeReturn(lex).tokens]
                     ELSE @]
    /\ phase' = "ready"
    /\ UNCHANGED <<callVars, lexer, line, convVars, parseVars, chessVars, argOrder, result>>

\* lexer.demonstrateAutomata()
EngineDemonstrate ==
    /\ phase = "ready"
    /\ lexer = "Lexer"
    /\ engine.calls < MaxCalls
    /\ engine' = [demonstrateAutomata(engine) EXCEPT !.calls = @ + 1]
    /\ UNCHANGED <<callVars, lexer, line, lex, convVars, parseVars, chessVars, sharedVars>>

EngineNext ==
    \/ \E s \in EngineInputs(lexer) : EngineTokenize(s)
    \/ EngineStep
    \/ EngineReturn
    \/ EngineDemonstrate

SpecEngine == EngineInit /\ [][EngineNext]_vars

(***************************************************************************)
(* Specification SpecCalls: one validator object (PDA of Final.cpp,        *)
(* ChessPDA of chessNot.cpp) serves any number of calls, each on any       *)
(* token vector, one loop iteration per step.  The fields live on between  *)
(* the calls: stackVar in parse, currentState and expectedMoveNumber in    *)
(* moves; the locals and the caller's vector do not.                       *)
(***************************************************************************)
MaxCallTokens == 3   \* tokens before END_OF_INPUT in a vector handed to a validator

\* stackVar = stack<string>(); stackVar.push("$"); currentState = START;
\* tokenIndex = 0, whatever the stack held
parseEnter(stackVar) ==
    [stackVar |-> push(<<>>, "$"), currentState |-> "START", tokenIndex |-> 0]

\* the entry of validateMoveSequence without the call of resetPDA
validateEnterNoReset(fields) ==
    [i |-> 0, currentState |-> fields.currentState,
     expectedMoveNumber |-> fields.expectedMoveNumber,
     returned |-> "none", warned |-> FALSE]

\* resetPDA(); the loop starts with i = 0
validateEnter(fields) ==
    [i |-> 0, currentState |-> resetPDA.currentState,
     expectedMoveNumber |-> resetPDA.expectedMoveNumber,
     returned |-> "none", warned |-> FALSE]

\* PDA() {}: the stack is empty; ChessPDA() { resetPDA(); }
PDA_new == [stackVar |-> <<>>]
ChessPDA_new == resetPDA

\* the while loop of parse from the locals p on, and its return value
RECURSIVE parseRun(_, _)
parseRunFrom(toks, p) == IF LoopDetected(toks, p) THEN "false" ELSE parseRun(toks, p)

parseRun(toks, p) ==
    IF p.currentState = "ACCEPT" THEN "true"
    ELSE IF p.currentState = "REJECT" THEN "false"
    ELSE parseRunFrom(toks, parseIteration(toks, p))

\* parse(tokens) of a PDA just constructed
PDA_parse(toks) == parseRun(toks, parseEnter(PDA_new.stackVar))

\* the for loop of validateMoveSequence from the locals v on, and its
\* return value
RECURSIVE validateRun(_, _)
validateRun(toks, v) ==
    IF v.returned = "none" /\ validateLoopTest(toks, v)
    THEN validateRun(toks, validateIteration(toks, v, toks[v.i + 1]))
    ELSE IF v.returned = "false" THEN "false" ELSE "true"

\* validateMoveSequence(tokens) of a ChessPDA just constructed
validateMoveSequence(toks) == validateRun(toks, validateEnter(ChessPDA_new))

\* token types of an expression, and words of a game with their types
CallTypes == {"IDENTIFIER", "OPERATOR", "ASSIGN", "LPAREN", "RPAREN"}

CallWords ==
    {[type |-> "MOVE_NUMBER", value |-> Str(<<"1", ".">>)],
     [type |-> "MOVE_NUMBER", value |-> Str(<<"2", ".">>)],
     [type |-> "PAWN_MOVE", value |-> Str(<<"e", "4">>)],
     [type |-> "CHECKMATE", value |-> Str(<<"e", "4", "#">>)],
     [type |-> "RESULT", value |-> Str(<<"1", "-", "0">>)]}

\* the offset of word k in the words joined by single blanks
RECURSIVE Offset(_, _)
Offset(words, k) ==
    IF k = 1 THEN 0 ELSE Offset(words, k - 1) + Len(words[k - 1].value) + 1

\* the vector ChessLexer::tokenize returns for the words joined by blanks
ChessVector(words) ==
    [k \in 1..(Len(words) + 1) |->
        IF k <= Len(words) THEN Token(words[k].type, words[k].value, Offset(words, k))
        ELSE Token("END_OF_INPUT", <<>>,
                   IF words = <<>> THEN 0 ELSE Offset(words, k) - 1)]

\* a vector without its last element: what a caller other than the
\* simulator may hand over (no END_OF_INPUT; the empty vector)
Bare(toks) == SubSeq(toks, 1, Len(toks) - 1)

PDAVectors ==
    UNION {{Vector(types), Bare(Vector(types))} : types \in Seqs(CallTypes, MaxCallTokens)}

ChessPDAVectors ==
    UNION {{ChessVector(words), Bare(ChessVector(words))} :
              words \in Seqs(CallWords, MaxCallTokens)}

CallVectors(class) == IF class = "PDA" THEN PDAVectors ELSE ChessPDAVectors

\* the fields of the validator
Fields ==
    IF validator.class = "PDA" THEN [stackVar |-> parse.stackVar]
    ELSE [currentState |-> moves.currentState,
          expectedMoveNumber |-> moves.expectedMoveNumber]

CallsInit ==
    /\ validator \in {[class |-> c, entered |-> <<>>, steps |-> 0] : c \in {"PDA", "ChessPDA"}}
    /\ tokens = <<>>
    /\ parse = SetStack(parseInit, PDA_new.stackVar)
    /\ moves = validateEnter(ChessPDA_new)
    /\ syntaxValid = FALSE
    /\ phase = "ready"
    /\ result = "none"
    /\ argOrder = "LeftToRight"
    /\ ConvIdle /\ ScanIdle

\* parse(t) or validateMoveSequence(t) is entered; validator.entered keeps
\* the fields it found
CallEnter(t) ==
    /\ phase = "ready"
    /\ tokens' = t
    /\ validator' = [validator EXCEPT !.entered = Fields, !.steps = 0]
    /\ IF validator.class = "PDA"
       THEN parse' = parseEnter(parse.stackVar) /\ UNCHANGED moves
       ELSE moves' = validateEnter(moves) /\ UNCHANGED parse
    /\ phase' = "called"
    /\ UNCHANGED <<syntaxValid, convVars, scanVars, argOrder, result>>

\* one iteration of the loop of the call under way
CallStep ==
    /\ phase = "called"
    /\ validator' = [validator EXCEPT !.steps = @ + 1]
    /\ IF validator.class = "PDA"
       THEN /\ parse.currentState \notin {"ACCEPT", "REJECT"}
            /\ parse' = parseIteration(tokens, parse)
            /\ IF LoopDetected(tokens, parse')
               THEN phase' = "returned" /\ result' = "false"
               ELSE UNCHANGED <<phase, result>>
            /\ UNCHANGED moves
       ELSE /\ moves.returned = "none"
            /\ validateLoopTest(tokens, moves)
            /\ moves' = validateIteration(tokens, moves, tokens[moves.i + 1])
            /\ UNCHANGED <<parse, phase, result>>
    /\ UNCHANGED <<tokens, syntaxValid, convVars, scanVars, argOrder>>

\* the loop is over: the call returns its value
CallReturn ==
    /\ phase = "called"
    /\ IF validator.class = "PDA"
       THEN /\ parse.currentState \in {"ACCEPT", "REJECT"}
            /\ result' = IF parse.currentState = "ACCEPT" THEN "true" ELSE "false"
       ELSE /\ moves.returned # "none" \/ ~validateLoopTest(tokens, moves)
            /\ result' = IF moves.returned = "false" THEN "false" ELSE "true"
    /\ phase' = "returned"
    /\ UNCHANGED <<callVars, parseVars, chessVars, convVars, scanVars, argOrder>>

\* the caller goes on: the vector and the locals of the call are gone, the
\* fields stay
CallerReturn ==
    /\ phase = "returned"
    /\ tokens' = <<>>
    /\ parse' = SetStack(parseInit, parse.stackVar)
    /\ moves' = validateEnterNoReset(moves)
    /\ validator' = [validator EXCEPT !.entered = <<>>, !.steps = 0]
    /\ phase' = "ready"
    /\ result' = "none"
    /\ UNCHANGED <<syntaxValid, convVars, scanVars, argOrder>>

CallsNext ==
    \/ \E t \in CallVectors(validator.class) : CallEnter(t)
    \/ CallStep
    \/ CallReturn
    \/ CallerReturn

SpecCalls == CallsInit /\ [][CallsNext]_vars

(***************************************************************************)
(* Specification SpecBuilder: one builder (class Lexer, class ChessNFA)    *)
(* serves any sequence of calls: the pattern constructions of the lexer's  *)
(* constructor and of demonstrateAutomata, and the operations on           *)
(* characters, class specifications and the fragments returned so far.     *)
(* build is [b, frags, used, calls, last]: the builder, the fragments      *)
(* returned, those handed to an operation, the number of calls, and the    *)
(* last call [op, before, args, fresh, out]; fresh tells that every call   *)
(* so far was handed fragments no call had been handed before, as the      *)
(* pattern constructors of both files do.                                  *)
(***************************************************************************)
MaxOps == 3   \* calls made on one builder

\* the operations of a class, by the number of fragments they take
UnaryOps(class) ==
    IF class = "Lexer" THEN {"kleeneStar", "oneOrMore", "zeroOrOne"}
    ELSE {"kleeneStar", "oneOrMore"}

BinaryOps == {"concatenate", "unionNFA"}

\* two characters, a class specification and one with a descending range
OpChars == {Ord("a"), Ord("b")}
OpClasses == {Str(<<"[", "a", "b", "]">>), Str(<<"[", "b", "-", "a", "]">>)}

\* the call op(x) or op(x, y) on builder b
Combine(class, op, b, x, y) ==
    CASE op = "createCharNFA" ->
           IF class = "Lexer" THEN Lexer_createCharNFA(b, x) ELSE Chess_createCharNFA(b, x)
      [] op = "createCharClassNFA" -> createCharClassNFA(class, b, x)
      [] op = "concatenate" -> concatenate(b, x, y)
      [] op = "unionNFA"    -> unionNFA(b, x, y)
      [] op = "kleeneStar"  -> kleeneStar(b, x)
      [] op = "oneOrMore"   -> oneOrMore(b, x)
      [] op = "zeroOrOne"   -> zeroOrOne(b, x)

Thrown(r) == "thrown" \in DOMAIN r /\ r.thrown # "none"

\* the builder after the constructor of the lexer: Lexer() builds its two
\* patterns, ChessLexer() its thirteen, on one builder
Initialized(class, order) ==
    IF class = "Lexer" THEN Lexer_initializeTokenNFAs[Len(LexerPatterns)].b
    ELSE Chess_initializeTokenNFAs[order][Len(ChessPatterns)].b

BuilderInit ==
    /\ lexer \in {"Lexer", "ChessNFA"}
    /\ argOrder \in (IF lexer = "Lexer" THEN {"LeftToRight"} ELSE ArgOrders)
    /\ build = [b |-> NewBuilder, frags |-> <<>>, used |-> {}, calls |-> 0, last |-> <<>>]
    /\ phase = "combining"
    /\ pattern = "none" /\ conv = <<>> /\ nfaCur = {} /\ dfaCur = 0
    /\ line = <<>> /\ lex = NewScan /\ engine = <<>>
    /\ result = "none"
    /\ ParseIdle /\ ChessIdle /\ CallIdle

\* the fragments of args are handed over for the first time, none twice
Fresh(args) ==
    /\ \A k \in DOMAIN args : args[k] \notin build.used
    /\ \A k, m \in DOMAIN args : k # m => args[k] # args[m]

\* the state after the call op(args) with outcome r; operands are the
\* fragments among args (none for a character or a class specification)
AfterCall(op, args, operands, r) ==
    [b     |-> r.b,
     frags |-> IF Thrown(r) THEN build.frags ELSE Append(build.frags, r.f),
     used  |-> build.used \cup {operands[k] : k \in DOMAIN operands},
     calls |-> build.calls + 1,
     last  |-> [op |-> op, before |-> build.b, args |-> args,
                fresh |-> (build.last # <<>> => build.last.fresh) /\ Fresh(operands),
                out |-> IF Thrown(r) THEN <<>> ELSE r.f]]

\* initializeTokenDFAs on the new builder; its fragments are locals
Initialize ==
    /\ phase = "combining"
    /\ build.calls = 0
    /\ build' = [build EXCEPT !.b = Initialized(lexer, argOrder), !.calls = 1,
                              !.last = [op |-> "initializeTokenDFAs", before |-> build.b,
                                        args |-> <<>>, fresh |-> TRUE, out |-> <<>>]]
    /\ UNCHANGED <<callVars, pattern, conv, nfaCur, dfaCur, scanVars, parseVars, chessVars,
                   sharedVars>>

\* Lexer::demonstrateAutomata: both patterns are built once more
Demonstrate ==
    /\ phase = "combining"
    /\ lexer = "Lexer"
    /\ build.calls < MaxOps
    /\ build' = [build EXCEPT !.b = demonstrateAutomata(build).b, !.calls = @ + 1,
                              !.last = [op |-> "demonstrateAutomata", before |-> build.b,
                                        args |-> <<>>, fresh |-> TRUE, out |-> <<>>]]
    /\ UNCHANGED <<callVars, pattern, conv, nfaCur, dfaCur, scanVars, parseVars, chessVars,
                   sharedVars>>

\* createCharNFA(c), createCharClassNFA(charClass)
Leaf(op, x) ==
    /\ phase = "combining"
    /\ build.calls < MaxOps
    /\ build' = AfterCall(op, <<x>>, <<>>, Combine(lexer, op, build.b, x, x))
    /\ UNCHANGED <<callVars, pattern, conv, nfaCur, dfaCur, scanVars, parseVars, chessVars,
                   sharedVars>>

\* kleeneStar, oneOrMore, zeroOrOne on the i-th fragment returned
Unary(op, i) ==
    /\ phase = "combining"
    /\ build.calls < MaxOps
    /\ build' = AfterCall(op, <<build.frags[i]>>, <<build.frags[i]>>,
                          Combine(lexer, op, build.b, build.frags[i], build.frags[i]))
    /\ UNCHANGED <<callVars, pattern, conv, nfaCur, dfaCur, scanVars, parseVars, chessVars,
                   sharedVars>>

\* concatenate, unionNFA on the i-th and the j-th fragment returned
Binary(op, i, j) ==
    /\ phase = "combining"
    /\ build.calls < MaxOps
    /\ build' = AfterCall(op, <<build.frags[i], build.frags[j]>>,
                          <<build.frags[i], build.frags[j]>>,
                          Combine(lexer, op, build.b, build.frags[i], build.frags[j]))
    /\ UNCHANGED <<callVars, pattern, conv, nfaCur, dfaCur, scanVars, parseVars, chessVars,
                   sharedVars>>

BuilderNext ==
    \/ Initialize
    \/ Demonstrate
    \/ \E c \in OpChars : Leaf("createCharNFA", c)
    \/ \E charClass \in OpClasses : Leaf("createCharClassNFA", charClass)
    \/ \E op \in UnaryOps(lexer), i \in 1..Len(build.frags) : Unary(op, i)
    \/ \E op \in BinaryOps, i, j \in 1..Len(build.frags) : Binary(op, i, j)

SpecBuilder == BuilderInit /\ [][BuilderNext]_vars

(***************************************************************************)
(* Specification SpecClosure: one epsilonClosure call on a set of states   *)
(* of a builder.  build is [b, states, closure]: the builder, the set      *)
(* handed over and the set returned.                                       *)
(***************************************************************************)
MaxSetSize == 2   \* states in the set handed to epsilonClosure

\* kleeneStar(kleeneStar(createCharNFA('a'))): its epsilon transitions form
\* a cycle
StarOfStar(class) ==
    LET char  == Combine(class, "createCharNFA", NewBuilder, Ord("a"), Ord("a"))
        inner == kleeneStar(char.b, char.f)
    IN kleeneStar(inner.b, inner.f).b

\* the builder of a Lexer after its constructor, that of a ChessLexer after
\* its first pattern and after its last but one, and the stars
ClosureBuilders ==
    {Initialized("Lexer", "LeftToRight"),
     Chess_initializeTokenNFAs["LeftToRight"][1].b,
     StarOfStar("Lexer"), StarOfStar("ChessNFA")}

SetsOf(b) == {S \in SUBSET (1..Len(b.states)) : Cardinality(S) <= MaxSetSize}

ClosureInit ==
    /\ build \in UNION {{[b |-> b, states |-> S, closure |-> <<>>] : S \in SetsOf(b)} :
                           b \in ClosureBuilders}
    /\ phase = "closing"
    /\ pattern = "none" /\ conv = <<>> /\ nfaCur = {} /\ dfaCur = 0
    /\ argOrder = "LeftToRight"
    /\ result = "none"
    /\ ScanIdle /\ ParseIdle /\ ChessIdle /\ CallIdle

\* set<shared_ptr<State>> closure; epsilonClosure(states, closure)
Close ==
    /\ phase = "closing"
    /\ build' = [build EXCEPT !.closure = epsilonClosure(build.b, build.states)]
    /\ phase' = "closed"
    /\ UNCHANGED <<callVars, pattern, conv, nfaCur, dfaCur, scanVars, parseVars, chessVars,
                   argOrder, result>>

ClosureNext == Close

SpecClosure == ClosureInit /\ [][ClosureNext]_vars

(***************************************************************************)
(* Specification SpecClosing: one epsilonClosure call, one iteration of    *)
(* its while loop per step.  build is [b, states, stack, closure, pushes,  *)
(* pops]: the builder, the set handed over, the two locals, how often each *)
(* state was pushed and how many iterations were made.                     *)
(***************************************************************************)
\* for (auto state : states) { stack.push(state); closure.insert(state); }
ClosureSeed(b, states) ==
    [stack   |-> SortedSeq(states),
     closure |-> states,
     pushes  |-> [p \in 1..Len(b.states) |-> IF p \in states THEN 1 ELSE 0]]

\* an iteration that pushes every epsilon successor, in the closure or not
ClosurePopAgain(b, c) ==
    LET current == c.stack[Len(c.stack)]
        next    == Successors(b, current, Epsilon)
    IN [stack   |-> SubSeq(c.stack, 1, Len(c.stack) - 1) \o SortedSeq(next),
        closure |-> c.closure \cup next,
        pushes  |-> [p \in DOMAIN c.pushes |->
                        IF p \in next THEN c.pushes[p] + 1 ELSE c.pushes[p]]]

\* one iteration of the while loop: pop, then insert and push the epsilon
\* successors that closure does not count yet
ClosurePop(b, c) ==
    LET current == c.stack[Len(c.stack)]
        fresh   == Successors(b, current, Epsilon) \ c.closure
    IN [stack   |-> SubSeq(c.stack, 1, Len(c.stack) - 1) \o SortedSeq(fresh),
        closure |-> c.closure \cup fresh,
        pushes  |-> [p \in DOMAIN c.pushes |->
                        IF p \in fresh THEN c.pushes[p] + 1 ELSE c.pushes[p]]]

ClosingInits ==
    UNION {{[b |-> b, states |-> S, stack |-> <<>>, closure |-> {},
             pushes |-> [p \in 1..Len(b.states) |-> 0], pops |-> 0] : S \in SetsOf(b)} :
              b \in ClosureBuilders}

ClosingInit ==
    /\ build \in ClosingInits
    /\ phase = "entered"
    /\ pattern = "none" /\ conv = <<>> /\ nfaCur = {} /\ dfaCur = 0
    /\ argOrder = "LeftToRight"
    /\ result = "none"
    /\ ScanIdle /\ ParseIdle /\ ChessIdle /\ CallIdle

ClosingRest ==
    UNCHANGED <<callVars, pattern, conv, nfaCur, dfaCur, scanVars, parseVars, chessVars,
                argOrder, result>>

\* the for loop over the set handed over
ClosingSeed ==
    /\ phase = "entered"
    /\ LET c == ClosureSeed(build.b, build.states)
       IN build' = [build EXCEPT !.stack = c.stack, !.closure = c.closure,
                                 !.pushes = c.pushes]
    /\ phase' = "popping"
    /\ ClosingRest

\* while (!stack.empty()) { ... }
ClosingPop ==
    /\ phase = "popping"
    /\ build.stack # <<>>
    /\ LET c == ClosurePop(build.b, build)
       IN build' = [build EXCEPT !.stack = c.stack, !.closure = c.closure,
                                 !.pushes = c.pushes, !.pops = @ + 1]
    /\ UNCHANGED phase
    /\ ClosingRest

\* the loop ends with the stack empty
ClosingReturn ==
    /\ phase = "popping"
    /\ build.stack = <<>>
    /\ phase' = "closed"
    /\ UNCHANGED build
    /\ ClosingRest

ClosingNext == ClosingSeed \/ ClosingPop \/ ClosingReturn

SpecClosing == ClosingInit /\ [][ClosingNext]_vars

\* the loop is a single thread of control: a step that can be taken is taken
SpecClosingFair == SpecClosing /\ WF_vars(ClosingNext)

(***************************************************************************)
(* Specification SpecLongest: the thirteen tryMatchDFA loops tryMatchLongest *)
(* starts at one scan position, read in step, one character of the input   *)
(* per step.  build is [run, pos]: currentState (0 once the loop was left)  *)
(* and lastAcceptPos of each loop, and the characters read.                 *)
(***************************************************************************)
MaxRead == 7      \* characters read from the scan position

\* one iteration of the while loop of tryMatchDFA on the character c
MatchIteration(dfaStates, r, c, pos) ==
    IF r.currentState = 0 \/ ~HasTransition(dfaStates, r.currentState, c)
    THEN [r EXCEPT !.currentState = 0]
    ELSE [currentState  |-> Target(dfaStates, r.currentState, c),
          lastAcceptPos |-> IF dfaStates[Target(dfaStates, r.currentState, c)].isFinal
                            THEN pos + 1 ELSE r.lastAcceptPos]

LongestInit ==
    /\ lexer = "ChessLexer"
    /\ argOrder \in ArgOrders
    /\ build = [run |-> [name \in SeqRange(ChessPatterns) |->
                            [currentState |-> 1, lastAcceptPos |-> -1]],
                pos |-> 0]
    /\ phase = "testing"
    /\ pattern = "none" /\ conv = <<>> /\ nfaCur = {} /\ dfaCur = 0
    /\ line = <<>> /\ lex = NewScan /\ engine = <<>>
    /\ result = "none"
    /\ ParseIdle /\ ChessIdle /\ CallIdle

\* the input goes on with the character c
LongestRead(c) ==
    /\ phase = "testing"
    /\ build.pos < MaxRead
    /\ build' = [run |-> [name \in SeqRange(ChessPatterns) |->
                             MatchIteration(CompiledDFA[argOrder][name], build.run[name],
                                            c, build.pos)],
                 pos |-> build.pos + 1]
    /\ UNCHANGED <<callVars, pattern, conv, nfaCur, dfaCur, scanVars, parseVars, chessVars,
                   sharedVars>>

LongestNext == \E c \in InputChars : LongestRead(c)

SpecLongest == LongestInit /\ [][LongestNext]_vars

(***************************************************************************)
(* Specification SpecExpand: the loop `for (char c = start; c <= end; c++)` *)
(* of parseCharacterClass (the same in both files) on one range, one test   *)
(* of c <= end per step.  char is the signed type of 8 bits: c++ computes   *)
(* c + 1 in int and converts it back to char, which takes CharMax + 1 to    *)
(* CharMin.  build is [start, end, c, validChars].                          *)
(***************************************************************************)
CharMin == -128

\* (char)(c + 1)
NextChar(c) == ((c + 1 - CharMin) % (CharMax - CharMin + 1)) + CharMin

\* the ends of the ranges followed: two letters and the two greatest chars
ExpandChars == {Ord("a"), Ord("c"), CharMax - 1, CharMax}

ExpandInit ==
    /\ build \in {[start |-> r[1], end |-> r[2], c |-> r[1], validChars |-> {}] :
                     r \in {q \in ExpandChars \X ExpandChars : q[1] <= q[2]}}
    /\ phase = "expanding"
    /\ pattern = "none" /\ conv = <<>> /\ nfaCur = {} /\ dfaCur = 0
    /\ argOrder = "LeftToRight"
    /\ result = "none"
    /\ ScanIdle /\ ParseIdle /\ ChessIdle /\ CallIdle

ExpandRest ==
    UNCHANGED <<callVars, pattern, conv, nfaCur, dfaCur, scanVars, parseVars, chessVars,
                argOrder, result>>

\* c <= end: validChars.insert(c); c++
ExpandInsert ==
    /\ phase = "expanding"
    /\ build.c <= build.end
    /\ build' = [build EXCEPT !.validChars = @ \cup {build.c}, !.c = NextChar(build.c)]
    /\ UNCHANGED phase
    /\ ExpandRest

\* c > end: the loop is left
ExpandExit ==
    /\ phase = "expanding"
    /\ build.c > build.end
    /\ phase' = "expanded"
    /\ UNCHANGED build
    /\ ExpandRest

ExpandNext == ExpandInsert \/ ExpandExit

SpecExpand == ExpandInit /\ [][ExpandNext]_vars

\* the loop is a single thread of control: it goes on while it can
SpecExpandFair == SpecExpand /\ WF_vars(ExpandNext)

(***************************************************************************)
(* Specification SpecHistory: the history of chessboard.cpp under the      *)
(* mouse clicks of main, one click per step.  The board is left out: what  *)
(* the rule functions (canPieceMoveTo, isKingInCheck, hasValidMoves) say   *)
(* about it is an input of the click.  build is the record of the globals  *)
(* [history, historyIndex, currentTurn, gameStatus, isPromoting, selected],*)
(* selected standing for selectedTile.x != -1; a MoveState is kept as      *)
(* [turn, status].  historyIndex counts from 0 as in the source, so        *)
(* history[historyIndex] of the source is history[historyIndex + 1] here.  *)
(***************************************************************************)
MaxHistory == 5

GameStatus == {"PLAYING", "CHECK", "CHECKMATE", "STALEMATE"}

\* the globals as their initializers leave them
Globals ==
    [history |-> <<>>, historyIndex |-> -1, currentTurn |-> "W",
     gameStatus |-> "PLAYING", isPromoting |-> FALSE, selected |-> FALSE]

OtherTurn(t) == IF t = "W" THEN "B" ELSE "W"

loadStateFromHistory(g, index) ==
    IF index >= 0 /\ index < Len(g.history)
    THEN [g EXCEPT !.historyIndex = index,
                   !.currentTurn = g.history[index + 1].turn,
                   !.gameStatus = g.history[index + 1].status,
                   !.selected = FALSE,
                   !.isPromoting = FALSE]
    ELSE g

saveCurrentState(g) ==
    LET kept == IF g.historyIndex < Len(g.history) - 1
                THEN SubSeq(g.history, 1, g.historyIndex + 1)
                ELSE g.history
        all == Append(kept, [turn |-> g.currentTurn, status |-> g.gameStatus])
    IN  [g EXCEPT !.history = all, !.historyIndex = Len(all) - 1]

resetGame(g) ==
    saveCurrentState([g EXCEPT !.currentTurn = "W", !.selected = FALSE,
                               !.gameStatus = "PLAYING", !.isPromoting = FALSE,
                               !.history = <<>>, !.historyIndex = -1])

\* isValidMove, with no test of historyIndex
isValidMoveInView(g, legal) ==
    IF g.gameStatus = "CHECKMATE" \/ g.gameStatus = "STALEMATE" \/ g.isPromoting
    THEN FALSE
    ELSE legal

\* legal: canPieceMoveTo holds and the move leaves the own king out of check
isValidMove(g, legal) ==
    IF \/ g.historyIndex < Len(g.history) - 1
       \/ g.gameStatus = "CHECKMATE" \/ g.gameStatus = "STALEMATE"
       \/ g.isPromoting
    THEN FALSE
    ELSE legal

\* status: what hasValidMoves and isKingInCheck make of the new position
updateGameStatusAndSaveHistory(g, status) ==
    saveCurrentState([g EXCEPT !.gameStatus = status])

applyMoveAndCheckStatus(g, status) ==
    [updateGameStatusAndSaveHistory([g EXCEPT !.currentTurn = OtherTurn(@)], status)
        EXCEPT !.selected = FALSE]

handlePromotionChoice(g, status) ==
    IF ~g.isPromoting
    THEN g
    ELSE [updateGameStatusAndSaveHistory([g EXCEPT !.currentTurn = OtherTurn(@)], status)
            EXCEPT !.isPromoting = FALSE]

HistoryInit ==
    /\ build = Globals
    /\ phase = "starting"
    /\ pattern = "none" /\ conv = <<>> /\ nfaCur = {} /\ dfaCur = 0
    /\ argOrder = "LeftToRight"
    /\ result = "none"
    /\ ScanIdle /\ ParseIdle /\ ChessIdle /\ CallIdle

HistoryRest ==
    UNCHANGED <<callVars, pattern, conv, nfaCur, dfaCur, scanVars, parseVars, chessVars,
                argOrder, result>>

\* main, before its loop
HistoryStart ==
    /\ phase = "starting"
    /\ build' = resetGame(build)
    /\ phase' = "playing"
    /\ HistoryRest

\* a click on one of the four tiles of the promotion menu
ClickPromotion ==
    /\ phase = "playing"
    /\ build.isPromoting
    /\ \E status \in GameStatus : build' = handlePromotionChoice(build, status)
    /\ UNCHANGED phase
    /\ HistoryRest

ClickReset ==
    /\ phase = "playing"
    /\ ~build.isPromoting
    /\ build' = resetGame(build)
    /\ UNCHANGED phase
    /\ HistoryRest

ClickUndo ==
    /\ phase = "playing"
    /\ ~build.isPromoting
    /\ build.historyIndex > 0
    /\ build' = loadStateFromHistory(build, build.historyIndex - 1)
    /\ UNCHANGED phase
    /\ HistoryRest

ClickRedo ==
    /\ phase = "playing"
    /\ ~build.isPromoting
    /\ build.historyIndex < Len(build.history) - 1
    /\ build' = loadStateFromHistory(build, build.historyIndex + 1)
    /\ UNCHANGED phase
    /\ HistoryRest

\* a click on a square of the board.  own: the square holds a piece of the
\* side to move; same: it is the selected square; promo: the piece moved is
\* a pawn that reaches row 0 or 7
ClickBoard(own, same, legal, promo, status) ==
    /\ phase = "playing"
    /\ ~build.isPromoting
    /\ build.gameStatus # "CHECKMATE" /\ build.gameStatus # "STALEMATE"
    /\ Len(build.history) < MaxHistory
    /\ build' =
          IF ~build.selected
          THEN [build EXCEPT !.selected = own]
          ELSE IF same
          THEN [build EXCEPT !.selected = FALSE]
          ELSE IF isValidMove(build, legal)
          THEN IF promo
               THEN [build EXCEPT !.isPromoting = TRUE, !.selected = FALSE]
               ELSE applyMoveAndCheckStatus(build, status)
          ELSE [build EXCEPT !.selected = own]
    /\ UNCHANGED phase
    /\ HistoryRest

HistoryNext ==
    \/ HistoryStart
    \/ ClickPromotion
    \/ ClickReset
    \/ ClickUndo
    \/ ClickRedo
    \/ \E own \in BOOLEAN, same \in BOOLEAN, legal \in BOOLEAN, promo \in BOOLEAN,
          status \in GameStatus :
          ClickBoard(own, same, legal, promo, status)

SpecHistory == HistoryInit /\ [][HistoryNext]_vars

(***************************************************************************)
(* Specification SpecWord: the DFA a lexer compiled for a pattern reads a  *)
(* word, one character per step; then tryMatchDFA is called on that DFA,   *)
(* the word and a start offset.  lex.pos is the offset and lex.tokens      *)
(* holds what the call returned.                                           *)
(***************************************************************************)
MaxWord == 5   \* characters of the word

\* two digits, the dot and a letter
WordChars == {Ord("1"), Ord("9"), Ord("."), Ord("x")}

WordPatterns(lx) == IF lx = "Lexer" THEN {"identifier", "number"} ELSE {"moveNumber"}

\* the call of tryMatchDFA of the lexer's class on the DFA of the pattern:
\* Lexer's returns a token, ChessLexer's a flag and matchedValue
tryMatchDFA(lx, name, dfaStates, input, startPos) ==
    IF lx = "Lexer"
    THEN Lexer_tryMatchDFA(dfaStates, input, startPos,
                           IF name = "identifier" THEN "IDENTIFIER" ELSE "NUMBER")
    ELSE Chess_tryMatchDFA(dfaStates, input, startPos)

WordInit ==
    /\ lexer \in {"Lexer", "ChessLexer"}
    /\ pattern \in WordPatterns(lexer)
    /\ argOrder = "LeftToRight"
    /\ conv = ConvRun(TheNFA.b, ConvInit(TheNFA.b, TheNFA.f))
    /\ dfaCur = 1
    /\ nfaCur = {}
    /\ build = <<>>
    /\ line = <<>>
    /\ lex = NewScan
    /\ engine = <<>>
    /\ phase = "reading"
    /\ result = "none"
    /\ ParseIdle /\ ChessIdle /\ CallIdle

\* the DFA reads the character c
WordRead(c) ==
    /\ phase = "reading"
    /\ Len(line) < MaxWord
    /\ line' = Append(line, c)
    /\ dfaCur' = DfaStep(conv.dfaStates, dfaCur, c)
    /\ UNCHANGED <<callVars, pattern, conv, nfaCur, build, lexer, lex, engine, parseVars,
                   chessVars, sharedVars>>

\* tryMatchDFA(dfa, line, startPos, ...)
WordMatch(startPos) ==
    /\ phase = "reading"
    /\ lex' = [lex EXCEPT !.pos = startPos,
                          !.tokens = <<tryMatchDFA(lexer, pattern, conv.dfaStates, line,
                                                   startPos)>>]
    /\ phase' = "matched"
    /\ UNCHANGED <<callVars, convVars, lexer, line, engine, parseVars, chessVars, argOrder,
                   result>>

WordNext ==
    \/ \E c \in WordChars : WordRead(c)
    \/ \E startPos \in 0..Len(line) : WordMatch(startPos)

SpecWord == WordInit /\ [][WordNext]_vars

(***************************************************************************)
(* C1, C2: the subset construction                                         *)
(***************************************************************************)
NfaAccepts == \E s \in nfaCur : TheNFA.b.states[s].isFinal
DfaAccepts == dfaCur # 0 /\ conv.dfaStates[dfaCur].isFinal

\* C1: for every pattern and every word, the DFA returned by convertToDFA
\* accepts the word iff the NFA, simulated with epsilonClosure, accepts it
C1_DfaEquivalentToNfa == phase = "matching" => (DfaAccepts <=> NfaAccepts)

\* a word both accept, of the pattern with the longest words
C1_Witness ==
    /\ phase = "matching" /\ DfaAccepts /\ NfaAccepts
    /\ pattern = "promotionViaCapture"

\* C2: every DFA state has at most one successor per symbol, and none on the
\* epsilon sentinel
C2_Deterministic ==
    phase \in {"converting", "matching"} =>
        \A d \in 1..Len(conv.dfaStates) :
            \A t \in conv.dfaStates[d].transitions :
                /\ t[1] # Epsilon
                /\ \A u \in conv.dfaStates[d].transitions : u[1] = t[1] => u = t

\* a finished conversion whose start state has successors on several symbols
C2_Witness ==
    /\ phase = "matching" /\ pattern = "check"
    /\ Cardinality(conv.dfaStates[1].transitions) > 1

(***************************************************************************)
(* C3, C4: the tokenizers (SpecTokenize)                                   *)
(***************************************************************************)
\* the state a DFA is in after a word, 0 once a transition is missing
RECURSIVE DfaRun(_, _, _, _)
DfaRun(dfaStates, word, k, state) ==
    IF k > Len(word) THEN state
    ELSE DfaRun(dfaStates, word, k + 1, DfaStep(dfaStates, state, word[k]))

IsAccepting(dfaStates, state) == state # 0 /\ dfaStates[state].isFinal

DfaAcceptsWord(dfaStates, word) == IsAccepting(dfaStates, DfaRun(dfaStates, word, 1, 1))

\* the lengths n > 0 for which a pattern's DFA accepts the n characters of
\* str from start on
AcceptLens(name, str, start) ==
    {n \in 1..(Len(str) - start) : DfaAcceptsWord(TokenDFA(name), substr(str, start, n))}

\* the classes of a lexer
ClassesOf(lx) == IF lx = "Lexer" THEN SeqRange(LexerPatterns) ELSE SeqRange(ChessPatterns)

\* token is of a DFA class, has the length of a word its class accepts at
\* its position, and no class of the lexer accepts a longer word there
IsLongestMatch(lx, str, token) ==
    \A name \in ClassesOf(lx) :
        /\ TypeOf(name) = token.type =>
               Len(token.value) \in AcceptLens(name, str, token.position)
        /\ \A n \in AcceptLens(name, str, token.position) : n <= Len(token.value)

\* C3: the token tokenize has just pushed, when it is of a DFA class (not a
\* single-character token, INVALID or END_OF_INPUT), is a longest match:
\* its class accepts its value and no class accepts a longer word at its
\* position (both lexers)
C3_LongestMatch ==
    (phase = "scanning" /\ lex.tokens # <<>>
       /\ lex.tokens[Len(lex.tokens)].type \in {TypeOf(name) : name \in ClassesOf(lexer)})
    => IsLongestMatch(lexer, line, lex.tokens[Len(lex.tokens)])

\* a CHECK token emitted where the pawn-move class accepts a shorter word
C3_Witness ==
    /\ phase = "scanned" /\ lexer = "ChessLexer"
    /\ \E k \in 1..Len(lex.tokens) :
          /\ lex.tokens[k].type = "CHECK"
          /\ AcceptLens("pawnMove", line, lex.tokens[k].position) # {}

\* C4: the vector tokenize returns holds exactly one END_OF_INPUT token, the
\* last one, and its position is the length of the input (both lexers)
C4_OneEndOfInput ==
    phase = "scanned" =>
        /\ lex.tokens # <<>>
        /\ lex.tokens[Len(lex.tokens)].type = "END_OF_INPUT"
        /\ lex.tokens[Len(lex.tokens)].position = Len(line)
        /\ \A k \in 1..(Len(lex.tokens) - 1) : lex.tokens[k].type # "END_OF_INPUT"

\* a returned vector of an input with a token, a skipped character and a
\* trailing blank
C4_Witness ==
    /\ phase = "scanned" /\ Len(lex.tokens) >= 2 /\ lex.hadLexicalError
    /\ line[Len(line)] = Ord(" ")

(***************************************************************************)
(* C5, C6, C7: PDA::parse (SpecPDA)                                        *)
(***************************************************************************)
\* the types t1..tn of a vector t1..tn END_OF_INPUT
TypesOf(toks) == [k \in 1..(Len(toks) - 1) |-> toks[k].type]

Rest(s, k) == SubSeq(s, k, Len(s))
Inner(s) == SubSeq(s, 2, Len(s) - 1)

\* EXPR := (IDENT | NUMBER) (OP EXPR)? | LPAREN EXPR RPAREN
RECURSIVE ClaimedExpr(_)
ClaimedExpr(s) ==
    /\ s # <<>>
    /\ \/ /\ s[1] \in {"IDENTIFIER", "NUMBER"}
          /\ \/ Len(s) = 1
             \/ Len(s) >= 3 /\ s[2] = "OPERATOR" /\ ClaimedExpr(Rest(s, 3))
       \/ /\ Len(s) >= 3 /\ s[1] = "LPAREN" /\ s[Len(s)] = "RPAREN"
          /\ ClaimedExpr(Inner(s))

\* S := IDENT (ASSIGN EXPR)? | EXPR
ClaimedS(s) ==
    \/ s = <<"IDENTIFIER">>
    \/ Len(s) >= 3 /\ s[1] = "IDENTIFIER" /\ s[2] = "ASSIGN" /\ ClaimedExpr(Rest(s, 3))
    \/ ClaimedExpr(s)

\* EXPR := ATOM (OP EXPR)?,  ATOM := IDENT | NUMBER | LPAREN EXPR RPAREN
RECURSIVE AmendedExpr(_)
AmendedAtom(s) ==
    \/ Len(s) = 1 /\ s[1] \in {"IDENTIFIER", "NUMBER"}
    \/ Len(s) >= 3 /\ s[1] = "LPAREN" /\ s[Len(s)] = "RPAREN" /\ AmendedExpr(Inner(s))

AmendedExpr(s) ==
    \/ AmendedAtom(s)
    \/ \E k \in 2..(Len(s) - 1) :
          /\ s[k] = "OPERATOR"
          /\ AmendedAtom(SubSeq(s, 1, k - 1))
          /\ AmendedExpr(Rest(s, k + 1))

AmendedS(s) ==
    \/ Len(s) >= 3 /\ s[1] = "IDENTIFIER" /\ s[2] = "ASSIGN" /\ AmendedExpr(Rest(s, 3))
    \/ AmendedExpr(s)

\* C5 as claimed: parse returns true for t1..tn END_OF_INPUT iff t1..tn is
\* derivable from S := IDENT (ASSIGN EXPR)? | EXPR with
\* EXPR := (IDENT | NUMBER) (OP EXPR)? | LPAREN EXPR RPAREN
C5_Claimed == phase = "parsed" => (result = "true" <=> ClaimedS(TypesOf(tokens)))

\* C5 as amended: parse returns true for t1..tn END_OF_INPUT (no ti being
\* END_OF_INPUT) iff t1..tn is derivable from S := IDENT ASSIGN EXPR | EXPR
\* with EXPR := ATOM (OP EXPR)? and ATOM := IDENT | NUMBER | LPAREN EXPR RPAREN
C5_AcceptsGrammar == phase = "parsed" => (result = "true" <=> AmendedS(TypesOf(tokens)))

\* an accepted vector with a parenthesised group followed by an operator
C5_Witness ==
    /\ phase = "parsed" /\ result = "true"
    /\ \E k \in 1..(Len(tokens) - 2) :
          tokens[k].type = "RPAREN" /\ tokens[k + 1].type = "OPERATOR"

\* the parenthesis depth after each of the first k types, LPAREN counting +1
\* and RPAREN -1
RECURSIVE Depth(_, _)
Depth(s, k) ==
    IF k = 0 THEN 0
    ELSE Depth(s, k - 1) + (IF s[k] = "LPAREN" THEN 1 ELSE IF s[k] = "RPAREN" THEN -1 ELSE 0)

Balanced(s) == Depth(s, Len(s)) = 0 /\ \A k \in 0..Len(s) : Depth(s, k) >= 0

\* the steps of parse in IN_EXPR
C6_InExprStep ==
    (phase = "parsing" /\ parse.currentState = "IN_EXPR") =>
        /\ (CurrentToken(tokens, parse.tokenIndex).type = "RPAREN"
               /\ top(parse.stackVar) = ")") =>
              /\ parse'.currentState = "IN_EXPR"
              /\ parse'.tokenIndex = parse.tokenIndex + 1
              /\ parse'.stackVar = pop(parse.stackVar)
        /\ (CurrentToken(tokens, parse.tokenIndex).type = "RPAREN"
               /\ top(parse.stackVar) # ")") =>
              /\ parse'.currentState = "REJECT"
              /\ parse'.tokenIndex = parse.tokenIndex
        /\ (CurrentToken(tokens, parse.tokenIndex).type = "END_OF_INPUT"
               /\ top(parse.stackVar) = "$") => parse'.currentState = "ACCEPT"
        /\ (CurrentToken(tokens, parse.tokenIndex).type = "END_OF_INPUT"
               /\ top(parse.stackVar) # "$") => parse'.currentState = "REJECT"

\* ACCEPT is entered only from IN_EXPR, at END_OF_INPUT, with "$" on top
C6_AcceptStep ==
    (parse.currentState # "ACCEPT" /\ parse'.currentState = "ACCEPT") =>
        /\ parse.currentState = "IN_EXPR"
        /\ CurrentToken(tokens, parse.tokenIndex).type = "END_OF_INPUT"
        /\ top(parse.stackVar) = "$"

\* C6: parse accepts only vectors with balanced parentheses; in IN_EXPR an
\* RPAREN is consumed (and ")" popped) only with ")" on top and is rejected
\* otherwise, and END_OF_INPUT leads to ACCEPT only with "$" on top and to
\* REJECT otherwise
C6_BalancedParentheses ==
    /\ []((phase = "parsed" /\ result = "true") => Balanced(TypesOf(tokens)))
    /\ [][C6_InExprStep /\ C6_AcceptStep]_vars

\* an accepted vector with a nested group
C6_Witness ==
    /\ phase = "parsed" /\ result = "true"
    /\ \E k \in 1..(Len(tokens) - 2) :
          tokens[k].type = "RPAREN" /\ tokens[k + 1].type = "RPAREN"

\* C7: in EXPECT_EXPR and in AFTER_OPERATOR, on END_OF_INPUT the next state
\* is REJECT, and from REJECT parse returns false
C7_MissingExpression ==
    [][/\ (phase = "parsing"
             /\ parse.currentState \in {"EXPECT_EXPR", "AFTER_OPERATOR"}
             /\ CurrentToken(tokens, parse.tokenIndex).type = "END_OF_INPUT")
          => parse'.currentState = "REJECT"
       /\ (phase = "parsing" /\ parse.currentState = "REJECT")
          => (phase' = "parsed" /\ result' = "false")]_vars

\* IDENTIFIER ASSIGN END_OF_INPUT, the stream of "x = ", after parse returned
C7_Witness ==
    /\ phase = "parsed" /\ result = "false"
    /\ TypesOf(tokens) = <<"IDENTIFIER", "ASSIGN">>
    /\ parse.currentState = "REJECT" /\ top(parse.stackVar) = "E"

(***************************************************************************)
(* C8, C9, C10: ChessPDA::validateMoveSequence on the vectors tokenize     *)
(* returns (SpecChess)                                                     *)
(***************************************************************************)
\* the number a MOVE_NUMBER token shows: its digits before the trailing '.'
NumericValue(token) == Decimal(SubSeq(token.value, 1, Len(token.value) - 1), 1, 0)

\* the k-th MOVE_NUMBER token has value k
NumbersInOrder(toks) ==
    \A k \in 1..Len(toks) :
        toks[k].type = "MOVE_NUMBER" =>
            NumericValue(toks[k]) = Cardinality({j \in 1..k : toks[j].type = "MOVE_NUMBER"})

\* "1. e4 e5 3. Nf3"
SkippedNumber ==
    Join(<<Str(<<"1", ".">>), Str(<<"e", "4">>), Str(<<"e", "5">>), Str(<<"3", ".">>),
           Str(<<"N", "f", "3">>)>>)

\* a step of the loop on a MOVE_NUMBER token goes on, with the counter one
\* up, only from EXPECT_NUMBER and with the expected value; else it returns
\* false
C8_NumberStep ==
    (phase = "validating" /\ moves.returned = "none" /\ validateLoopTest(lex.tokens, moves)
       /\ lex.tokens[moves.i + 1].type = "MOVE_NUMBER") =>
        IF moves.currentState = "EXPECT_NUMBER"
           /\ NumericValue(lex.tokens[moves.i + 1]) = moves.expectedMoveNumber
        THEN /\ moves'.returned = "none"
             /\ moves'.expectedMoveNumber = moves.expectedMoveNumber + 1
        ELSE moves'.returned = "false"

\* C8: a MOVE_NUMBER token is accepted only in EXPECT_NUMBER and only with
\* the value of the counter, which starts at 1; in an accepted sequence the
\* k-th MOVE_NUMBER token has value k; "1. e4 e5 3. Nf3" is rejected at the
\* token 3. with 2 expected
C8_MoveNumbers ==
    /\ [][C8_NumberStep]_vars
    /\ []((phase = "validating" /\ moves.i = 0) => moves.expectedMoveNumber = 1)
    /\ []((phase = "done" /\ result = "true") => NumbersInOrder(lex.tokens))
    /\ []((phase = "done" /\ line = SkippedNumber) =>
             /\ result = "false"
             /\ moves.expectedMoveNumber = 2
             /\ NumericValue(lex.tokens[moves.i + 1]) = 3)

\* "1. e4 e5 3. Nf3" after validateMoveSequence returned
C8_Witness ==
    /\ phase = "done" /\ line = SkippedNumber /\ result = "false"
    /\ lex.tokens[moves.i + 1].type = "MOVE_NUMBER"

\* validateMoveSequence has returned, the token it stopped at is
\* END_OF_INPUT and the validator is in the given state
EndReachedIn(state) ==
    /\ phase = "done"
    /\ lex.tokens[moves.i + 1].type = "END_OF_INPUT"
    /\ moves.currentState = state

\* C9: when END_OF_INPUT is reached in EXPECT_WHITE_MOVE, as for "1.",
\* validateMoveSequence returns false
C9_AbruptEndRejected == EndReachedIn("EXPECT_WHITE_MOVE") => result = "false"

\* C10: when END_OF_INPUT is reached in EXPECT_BLACK_MOVE, as for
\* "1. e4 e5 2. Nf3", validateMoveSequence returns true and the half-move
\* warning has been given
C10_HalfMoveWarned ==
    EndReachedIn("EXPECT_BLACK_MOVE") => (result = "true" /\ moves.warned)

(***************************************************************************)
(* C11, C12: the end of the game                                           *)
(***************************************************************************)
\* the loop of validateMoveSequence is about to visit a token of this type
Visiting(type) ==
    /\ phase = "validating" /\ moves.returned = "none"
    /\ validateLoopTest(lex.tokens, moves)
    /\ lex.tokens[moves.i + 1].type = type

\* a RESULT token met in one of the three other states leads to GAME_OVER
\* and the loop goes on
C11_ResultStep ==
    (Visiting("RESULT") /\ moves.currentState # "GAME_OVER") =>
        /\ moves.currentState \in {"EXPECT_NUMBER", "EXPECT_WHITE_MOVE", "EXPECT_BLACK_MOVE"}
        /\ moves'.currentState = "GAME_OVER"
        /\ moves'.returned = "none"

\* a token visited in GAME_OVER, which END_OF_INPUT never is, returns false
C11_GameOverStep ==
    (phase = "validating" /\ moves.returned = "none"
       /\ validateLoopTest(lex.tokens, moves) /\ moves.currentState = "GAME_OVER") =>
        /\ lex.tokens[moves.i + 1].type # "END_OF_INPUT"
        /\ moves'.returned = "false"

\* a token other than END_OF_INPUT after a RESULT token
TokenAfterResult(toks) ==
    \E k \in 1..Len(toks) : \E j \in (k + 1)..Len(toks) :
        toks[k].type = "RESULT" /\ toks[j].type # "END_OF_INPUT"

\* "1. e4 1-0 e4"
MoveAfterResult ==
    Join(<<Str(<<"1", ".">>), Str(<<"e", "4">>), Str(<<"1", "-", "0">>), Str(<<"e", "4">>)>>)

\* C11: a RESULT token moves the validator to GAME_OVER from EXPECT_NUMBER,
\* EXPECT_WHITE_MOVE and EXPECT_BLACK_MOVE alike, and in GAME_OVER any
\* further token other than END_OF_INPUT makes validateMoveSequence return
\* false
C11_ResultEndsGame ==
    /\ [][C11_ResultStep]_vars
    /\ [][C11_GameOverStep]_vars
    /\ []((phase = "done" /\ TokenAfterResult(lex.tokens)) => result = "false")

\* "1. e4 1-0 e4": the RESULT token was met in EXPECT_BLACK_MOVE and the
\* move after it stopped the loop in GAME_OVER
C11_Witness ==
    /\ phase = "done" /\ line = MoveAfterResult /\ result = "false"
    /\ moves.currentState = "GAME_OVER"
    /\ moves.i = 3

\* a CHECKMATE token visited without a RESULT token right behind it returns
\* false
C12_MateStep ==
    (Visiting("CHECKMATE") /\ lex.tokens[moves.i + 2].type # "RESULT") =>
        moves'.returned = "false"

\* every CHECKMATE token is directly followed by a RESULT token
MateThenResult(toks) ==
    \A k \in 1..Len(toks) :
        toks[k].type = "CHECKMATE" => (k < Len(toks) /\ toks[k + 1].type = "RESULT")

\* C12: a CHECKMATE token whose next token is not RESULT makes
\* validateMoveSequence return false; in an accepted sequence each CHECKMATE
\* token is directly followed by a RESULT token
C12_MateNeedsResult ==
    /\ [][C12_MateStep]_vars
    /\ []((phase = "done" /\ ~MateThenResult(lex.tokens)) => result = "false")

\* an accepted game with a checkmate, and so with the result behind it
C12_Witness ==
    /\ phase = "done" /\ result = "true"
    /\ \E k \in 1..Len(lex.tokens) : lex.tokens[k].type = "CHECKMATE"

(***************************************************************************)
(* C13, C14: characters no pattern matches                                 *)
(***************************************************************************)
\* no pattern of the lexer accepts a word that starts at pos, and the
\* character there is no single-character token of the Lexer
Unrecognized(lx, str, pos) ==
    /\ \A name \in ClassesOf(lx) : AcceptLens(name, str, pos) = {}
    /\ lx = "Lexer" => str[pos + 1] \notin DOMAIN singleCharTokens

\* the loop of tokenize is at a character that is not white space
AtCharacter(lx) ==
    /\ phase = "scanning" /\ lexer = lx
    /\ lex.pos < Len(line) /\ ~isspace(line[lex.pos + 1])

\* the offsets of the characters that belong to a token
Covered(toks) ==
    UNION {t.position .. (t.position + Len(t.value) - 1) : t \in SeqRange(toks)}

\* the offsets of the characters that are neither white space nor part of
\* a token
Skipped(str, toks) ==
    {q \in 0..(Len(str) - 1) : ~isspace(str[q + 1]) /\ q \notin Covered(toks)}

\* ChessLexer::tokenize at an unrecognized character sets the flag, pushes
\* nothing and goes on one character further; at any other character it
\* pushes a token and leaves the flag alone
C13_SkipStep ==
    AtCharacter("ChessLexer") =>
        IF Unrecognized(lexer, line, lex.pos)
        THEN lex' = [lex EXCEPT !.hadLexicalError = TRUE, !.pos = @ + 1]
        ELSE /\ lex'.hadLexicalError = lex.hadLexicalError
             /\ Len(lex'.tokens) = Len(lex.tokens) + 1

\* C13: ChessLexer::tokenize returns no INVALID token, and hadLexicalError
\* is true iff a character that is not white space was skipped, that is,
\* belongs to no returned token; the scan resumes right behind a skipped
\* character
C13_SkippedNotEmitted ==
    /\ [][C13_SkipStep]_vars
    /\ [](lexer = "ChessLexer" =>
             \A k \in 1..Len(lex.tokens) : lex.tokens[k].type # "INVALID")
    /\ []((phase = "scanned" /\ lexer = "ChessLexer") =>
             (lex.hadLexicalError <=> Skipped(line, lex.tokens) # {}))

\* a returned vector with a token behind a skipped character
C13_Witness ==
    /\ phase = "scanned" /\ lexer = "ChessLexer" /\ lex.hadLexicalError
    /\ \E k \in 1..Len(lex.tokens) : \E q \in Skipped(line, lex.tokens) :
          lex.tokens[k].type # "END_OF_INPUT" /\ q < lex.tokens[k].position

\* Lexer::tokenize at an unrecognized character pushes one INVALID token
\* with that character and its offset and goes on one character further
C14_InvalidStep ==
    (AtCharacter("Lexer") /\ Unrecognized(lexer, line, lex.pos)) =>
        lex' = [lex EXCEPT
                  !.tokens = Append(@, Token("INVALID", <<line[lex.pos + 1]>>, lex.pos)),
                  !.pos = @ + 1]

\* C14: where neither a single-character token nor a DFA matches,
\* Lexer::tokenize emits exactly one INVALID token with that character and
\* its offset, advances by one, and scans on to the end of the input: in
\* the returned vector every character that is not white space belongs to
\* exactly one token, and the INVALID tokens are the unrecognized ones
C14_InvalidEmitted ==
    /\ [][C14_InvalidStep]_vars
    /\ []((phase = "scanned" /\ lexer = "Lexer") =>
             /\ lex.pos = Len(line)
             /\ \A q \in 0..(Len(line) - 1) :
                    ~isspace(line[q + 1]) =>
                       Cardinality({k \in 1..Len(lex.tokens) :
                           q \in lex.tokens[k].position ..
                                   (lex.tokens[k].position + Len(lex.tokens[k].value) - 1)}) = 1
             /\ \A k \in 1..Len(lex.tokens) :
                    lex.tokens[k].type = "INVALID" =>
                       /\ lex.tokens[k].value = <<line[lex.tokens[k].position + 1]>>
                       /\ Unrecognized(lexer, line, lex.tokens[k].position))

\* a returned vector with an INVALID token and a valid token behind it
C14_Witness ==
    /\ phase = "scanned" /\ lexer = "Lexer"
    /\ \E k \in 1..(Len(lex.tokens) - 1) :
          /\ lex.tokens[k].type = "INVALID"
          /\ lex.tokens[k + 1].type \in {"IDENTIFIER", "NUMBER"}

(***************************************************************************)
(* C15 .. C19: character classes                                           *)
(***************************************************************************)
\* the specification is not empty, starts with '[' and ends with ']'
WellFormed(charClass) ==
    /\ Len(charClass) > 0
    /\ charClass[1] = Ord("[") /\ charClass[Len(charClass)] = Ord("]")

\* what is between the first and the last character
ContentOf(charClass) == SubSeq(charClass, 2, Len(charClass) - 1)

\* createCharClassNFA is over: it returned, threw or hangs
CallOver == phase \in {"built", "thrown", "diverged", "converted", "read"}

\* the fragment accepts the word read: a state it has reached is accepting
ClassNfaAccepts == \E q \in nfaCur : build.out.b.states[q].isFinal

\* C15: for a well-formed class specification and a character c of its
\* member set, the fragment createCharClassNFA returns, and the DFA
\* convertToDFA makes of it, accept the one-character string c (both
\* builders)
C15_ClassAcceptsMembers ==
    (phase = "read" /\ WellFormed(pattern) /\ line[1] \in build.parsed.validChars) =>
        (ClassNfaAccepts /\ DfaAccepts)

\* the set the scan of content from index i on yields: a range for
\* content[i] '-' content[i+2], three characters further, else content[i]
\* alone, one character further
RECURSIVE ScannedSet(_, _)
ScannedSet(content, i) ==
    IF i > Len(content) THEN {}
    ELSE IF i + 2 <= Len(content) /\ content[i + 1] = Ord("-")
         THEN (content[i] .. content[i + 2]) \cup ScannedSet(content, i + 3)
         ELSE {content[i]} \cup ScannedSet(content, i + 1)

\* the indexes at which that scan meets a range
RECURSIVE ScannedRanges(_, _)
ScannedRanges(content, i) ==
    IF i > Len(content) THEN {}
    ELSE IF i + 2 <= Len(content) /\ content[i + 1] = Ord("-")
         THEN {i} \cup ScannedRanges(content, i + 3)
         ELSE ScannedRanges(content, i + 1)

\* parseCharacterClass returned with exactly the scanned set
YieldsScannedSet ==
    /\ build.parsed.thrown = "none"
    /\ build.parsed.validChars = ScannedSet(ContentOf(pattern), 1)

RangesAscend(content) ==
    \A i \in ScannedRanges(content, 1) :
        content[i] <= content[i + 2] /\ content[i + 2] < CharMax

C17_FormatError ==
    (CallOver /\ ~WellFormed(pattern)) =>
        /\ phase = "thrown"
        /\ build.out.thrown = "format"

\* the first range of the scan goes from high to low; the scan stops there
RECURSIVE DescendingFirst(_, _)
DescendingFirst(content, i) ==
    /\ i <= Len(content)
    /\ IF i + 2 <= Len(content) /\ content[i + 1] = Ord("-")
       THEN content[i] > content[i + 2]
            \/ (content[i + 2] < CharMax /\ DescendingFirst(content, i + 3))
       ELSE DescendingFirst(content, i + 1)

\* C18: when the scan of a class specification comes to a range x-y with
\* x > y, parseCharacterClass fails with a range error: the call throws, no
\* fragment is returned, and no set with an empty or partial range is
\* handed on (both builders)
C18_RangeError ==
    (CallOver /\ WellFormed(pattern) /\ DescendingFirst(ContentOf(pattern), 1)) =>
        /\ phase = "thrown"
        /\ build.parsed.thrown = "range"
        /\ build.out.thrown = "range"
        /\ build.out.f = [start |-> 0, end |-> 0]

\* "[ac-a]": the letter a was inserted before the range c-a threw
C18_Witness ==
    /\ phase = "thrown" /\ build.out.thrown = "range"
    /\ pattern = Str(<<"[", "a", "c", "-", "a", "]">>)
    /\ build.parsed.validChars = {Ord("a")}

\* C19: when createCharClassNFA fails with a format or range error, the
\* builder is as before the call: the same state list and state counter
C19_BuilderRestored ==
    (phase = "thrown" /\ build.out.thrown \in {"format", "range"}) =>
        /\ build.out.b.states = build.before.states
        /\ build.out.b.stateCounter = build.before.stateCounter

(***************************************************************************)
(* C20: the compiled DFAs over several calls                               *)
(***************************************************************************)
\* the DFAs the lexer holds are those its constructor compiled
DfasAsCompiled ==
    \A name \in DOMAIN engine.dfas : engine.dfas[name] = CompiledDFA[argOrder][name]

\* C20: after any sequence of tokenize calls and, for Lexer, of
\* demonstrateAutomata calls, the token DFAs are as compiled (states,
\* transitions, accept flags), and tokenize returns for a line the token
\* vector it returned for that line before
C20_DfasUnchanged ==
    /\ DfasAsCompiled
    /\ (phase = "ready" /\ engine.first # <<>> /\ line = engine.first.input) =>
           lex.tokens = engine.first.tokens

\* the last of the calls has returned: it tokenized the line of the first
\* tokenize call, and the line holds a token
C20_Witness ==
    /\ phase = "ready" /\ engine.calls = MaxCalls
    /\ engine.first # <<>> /\ line = engine.first.input
    /\ Len(lex.tokens) > 1

(***************************************************************************)
(* C21: a validator call depends on its token vector only                  *)
(***************************************************************************)
\* the call under way has been entered and its loop has not started
Entered == phase = "called" /\ validator.steps = 0

\* C21: after any sequence of earlier calls on the same object, PDA::parse
\* starts with the stack ["$"] in START, and
\* ChessPDA::validateMoveSequence starts with expected move number 1 in
\* EXPECT_NUMBER; every call returns what a validator just constructed
\* returns on the same vector.
C21_FreshPerCall ==
    /\ Entered /\ validator.class = "PDA" =>
           parse.stackVar = <<"$">> /\ parse.currentState = "START"
    /\ Entered /\ validator.class = "ChessPDA" =>
           moves.expectedMoveNumber = 1 /\ moves.currentState = "EXPECT_NUMBER"
    /\ phase = "returned" =>
           result = IF validator.class = "PDA" THEN PDA_parse(tokens)
                    ELSE validateMoveSequence(tokens)

\* a PDA that an earlier call left with more than the bottom marker on its
\* stack accepts a vector
C21_Witness ==
    /\ phase = "returned"
    /\ validator.class = "PDA"
    /\ Len(validator.entered.stackVar) > 1
    /\ result = "true"

(***************************************************************************)
(* C22: state identities                                                   *)
(***************************************************************************)
\* the ids of the states ascend in the order of allocation (so no two are
\* equal), and the next id to hand out is above them all
IdsAscend(b) ==
    /\ \A p \in 1..(Len(b.states) - 1) : b.states[p].id < b.states[p + 1].id
    /\ \A p \in 1..Len(b.states) : b.states[p].id < b.stateCounter

\* C22: over any sequence of calls on one builder, the pattern
\* constructions of the lexer's constructor and of demonstrateAutomata
\* included, every state allocated has an id of its own and the ids
\* strictly increase in allocation order.
C22_IdsNeverReused == phase = "combining" => IdsAscend(build.b)

\* demonstrateAutomata has built both patterns again on the builder that
\* holds those of the constructor
C22_Witness ==
    /\ phase = "combining"
    /\ build.last # <<>>
    /\ build.last.op = "demonstrateAutomata"
    /\ build.last.before = Initialized("Lexer", "LeftToRight")
    /\ Len(build.b.states) = 2 * Len(build.last.before.states)

(***************************************************************************)
(* C23, C24: subsets and closures                                          *)
(***************************************************************************)
\* the states reachable from those of S over zero or more epsilon
\* transitions: the least set that holds S and is closed under them
RECURSIVE EpsilonReachable(_, _)
EpsilonReachable(b, S) ==
    IF \A p \in S : Successors(b, p, Epsilon) \subseteq S THEN S
    ELSE EpsilonReachable(b, S \cup UNION {Successors(b, p, Epsilon) : p \in S})

SubsetOf(k) == conv.dfaStates[k].nfaStates

\* no two DFA states made so far have the same subset
SubsetsDiffer ==
    \A i, j \in DOMAIN conv.dfaStates : i # j => SubsetOf(i) # SubsetOf(j)

\* the subset of DFA state k is not empty, holds the epsilon successors of
\* its members, and is the closure of {start} or what a DFA state made
\* before it reaches on a symbol
SubsetSound(k) ==
    /\ SubsetOf(k) # {}
    /\ \A p \in SubsetOf(k) : Successors(TheNFA.b, p, Epsilon) \subseteq SubsetOf(k)
    /\ IF k = 1 THEN SubsetOf(k) = EpsilonReachable(TheNFA.b, {TheNFA.f.start})
       ELSE \E j \in 1..(k - 1), c \in conv.alphabet :
               /\ Move(TheNFA.b, SubsetOf(j), c) # {}
               /\ SubsetOf(k) = EpsilonReachable(TheNFA.b, Move(TheNFA.b, SubsetOf(j), c))

\* dfaStateMap has one entry per subset made, and the entry is its DFA state
MemoExact ==
    /\ DOMAIN conv.dfaStateMap = {SubsetOf(k) : k \in DOMAIN conv.dfaStates}
    /\ \A k \in DOMAIN conv.dfaStates : conv.dfaStateMap[SubsetOf(k)] = k

\* C23: within one convertToDFA run no two DFA states have the same subset
\* of NFA states; the subset of every DFA state made is a non-empty,
\* epsilon-closed set reachable from the closure of {start}; the memo table
\* maps each such subset to exactly one DFA state.
C23_SubsetsUnique ==
    phase \in {"converting", "matching"} =>
        /\ SubsetsDiffer
        /\ \A k \in DOMAIN conv.dfaStates : SubsetSound(k)
        /\ MemoExact

\* the run is over, and a subset reached on a symbol was found in the table:
\* a transition leads to a DFA state made no later than its source
C23_Witness ==
    /\ phase = "matching"
    /\ \E k \in DOMAIN conv.dfaStates :
          \E t \in conv.dfaStates[k].transitions : t[2] <= k

\* C24: epsilonClosure(S) is exactly the set of states reachable from S by
\* zero or more epsilon transitions: it holds S, it holds the epsilon
\* successors of its members, and it holds no state that is not reachable
\* from S over epsilon transitions.
C24_ClosureExact ==
    phase = "closed" =>
        /\ build.states \subseteq build.closure
        /\ \A p \in build.closure : Successors(build.b, p, Epsilon) \subseteq build.closure
        /\ build.closure \subseteq EpsilonReachable(build.b, build.states)

\* a state of the set lies on an epsilon cycle, and the closure holds a
\* state of that cycle that is no direct successor of it
C24_Witness ==
    /\ phase = "closed"
    /\ \E p \in build.states, q \in build.closure \ build.states :
          /\ q \notin Successors(build.b, p, Epsilon)
          /\ p \in EpsilonReachable(build.b, {q})

(***************************************************************************)
(* C25: PDA::parse terminates                                              *)
(***************************************************************************)
\* a call does not wait: an iteration that can run runs, a return that can
\* happen happens
SpecCallsFair == SpecCalls /\ WF_vars(CallStep) /\ WF_vars(CallReturn)

InParse == validator.class = "PDA" /\ phase \in {"called", "returned"}

\* C25: PDA::parse terminates on every token vector, one that is empty or
\* lacks END_OF_INPUT included: no more than two iterations of a call leave
\* tokenIndex as it is, tokenIndex does not pass the token count, so the
\* iterations number at most the token count plus two; and every call
\* entered returns.
C25_ParseTerminates ==
    /\ [](InParse => /\ validator.steps <= parse.tokenIndex + 2
                     /\ parse.tokenIndex <= Len(tokens)
                     /\ validator.steps <= Len(tokens) + 2)
    /\ (InParse /\ phase = "called") ~> (phase = "returned")

\* a call on a vector without END_OF_INPUT has returned after as many
\* iterations as the vector has tokens, and two
C25_Witness ==
    /\ InParse /\ phase = "returned"
    /\ tokens # <<>>
    /\ tokens[Len(tokens)].type # "END_OF_INPUT"
    /\ validator.steps = Len(tokens) + 2

(***************************************************************************)
(* C26, C27: the number pattern, and the longest accepted prefix           *)
(***************************************************************************)
IsDigit(c) == c >= Ord("0") /\ c <= Ord("9")

Digits(w, from, to) == from <= to /\ \A k \in from..to : IsDigit(w[k])

\* [0-9]+(\.[0-9]+)? : digits, or digits, a dot and digits
IsNumber(w) ==
    \E k \in 1..Len(w) :
        /\ Digits(w, 1, k)
        /\ \/ k = Len(w)
           \/ w[k + 1] = Ord(".") /\ Digits(w, k + 2, Len(w))

\* C26: the number DFA that Lexer compiles accepts exactly the words of
\* [0-9]+(\.[0-9]+)? : one digit or more, then nothing or a dot and one
\* digit or more; so it rejects the empty word, "1.", ".5" and "1.2.3".
C26_NumberPattern ==
    phase = "reading" /\ pattern = "number" => (DfaAccepts <=> IsNumber(line))

\* the number DFA has read a word with a dot and accepts it
C26_Witness ==
    /\ phase = "reading" /\ pattern = "number"
    /\ \E k \in 1..Len(line) : line[k] = Ord(".")
    /\ DfaAccepts

\* the lengths n > 0 for which the DFA read accepts the n characters of the
\* word from the offset on
PrefixLens ==
    {n \in 1..(Len(line) - lex.pos) : DfaAcceptsWord(conv.dfaStates, substr(line, lex.pos, n))}

LongestPrefix ==
    substr(line, lex.pos, CHOOSE n \in PrefixLens : \A m \in PrefixLens : m <= n)

\* what the call returned: whether it matched, and the value matched
Returned ==
    IF lexer = "Lexer"
    THEN [matched |-> lex.tokens[1].type # "INVALID", matchedValue |-> lex.tokens[1].value]
    ELSE lex.tokens[1]

\* C27: tryMatchDFA on a DFA, a string and a start offset returns the
\* longest non-empty prefix of the string from the offset on that the DFA
\* accepts, also when the DFA passes non-accepting states after an earlier
\* accepting one; it reports no match exactly when the DFA accepts no
\* non-empty prefix (both lexers).
C27_LongestPrefix ==
    phase = "matched" =>
        /\ Returned.matched <=> PrefixLens # {}
        /\ Returned.matched => Returned.matchedValue = LongestPrefix

\* the value matched is reached over a prefix that is not accepted and that
\* follows one that is: the number DFA on "1.9"
C27_Witness ==
    /\ phase = "matched"
    /\ Returned.matched
    /\ \E n \in PrefixLens, m \in 1..Len(Returned.matchedValue) :
          n < m /\ m \notin PrefixLens

(***************************************************************************)
(* C28, C29: the fragments the operations return                           *)
(***************************************************************************)
\* the states reachable from those of S over transitions on any symbol
RECURSIVE Reachable(_, _)
Reachable(b, S) ==
    IF \A p \in S : {t[2] : t \in b.states[p].transitions} \subseteq S THEN S
    ELSE Reachable(b, S \cup UNION {{t[2] : t \in b.states[p].transitions} : p \in S})

\* the end of fragment f is accepting, and no other state reachable from
\* its start is
SingleExit(b, f) == {p \in Reachable(b, {f.start}) : b.states[p].isFinal} = {f.end}

\* the last call returned a fragment, and every call so far was handed
\* fragments that no call had been handed before, no fragment twice
ReturnedFragment ==
    /\ phase = "combining"
    /\ build.last # <<>>
    /\ build.last.out # <<>>
    /\ build.last.fresh

\* C28: every fragment returned by an operation of a builder (createCharNFA,
\* createCharClassNFA, concatenate, unionNFA, kleeneStar, oneOrMore,
\* zeroOrOne) has a single accepting exit: its end state is accepting and
\* no other state reachable from its start is (Lexer and ChessNFA).
C28_SingleAcceptingExit == ReturnedFragment => SingleExit(build.b, build.last.out)

MaxRepeated == 4   \* characters of a word read by a fragment

RepeatedWords == Seqs(OpChars, MaxRepeated)

\* the states an NFA is in after the characters k.. of a word, from the set S
RECURSIVE NfaRun(_, _, _, _)
NfaRun(b, S, w, k) ==
    IF k > Len(w) THEN S
    ELSE NfaRun(b, epsilonClosure(b, Move(b, S, w[k])), w, k + 1)

StatesAfter(b, f, w) == NfaRun(b, epsilonClosure(b, {f.start}), w, 1)

\* the word leads from the start of fragment f to its end
ReachesEnd(b, f, w) == f.end \in StatesAfter(b, f, w)

\* the NFA of fragment f accepts the word: it leads to an accepting state
NfaAcceptsWord(b, f, w) == \E s \in StatesAfter(b, f, w) : b.states[s].isFinal

\* w is one word, or several in a row, that lead a from its start to its
\* end in the builder as it was before the call
RECURSIVE Repeats(_, _, _)
Repeats(b, a, w) ==
    \/ ReachesEnd(b, a, w)
    \/ \E k \in 1..(Len(w) - 1) :
          ReachesEnd(b, a, SubSeq(w, 1, k)) /\ Repeats(b, a, SubSeq(w, k + 1, Len(w)))

CalledOneOrMore == ReturnedFragment /\ build.last.op = "oneOrMore"

\* C29: oneOrMore(a), built as concatenate(a, kleeneStar(a)) on a's own
\* states, accepts exactly the words that are one or more words of a in a
\* row (a word of a: one that leads from a's start to a's end); it does not
\* accept the empty word when a does not.
C29_OneOrMore ==
    CalledOneOrMore =>
        \A w \in RepeatedWords :
            /\ NfaAcceptsWord(build.b, build.last.out, w)
                   <=> Repeats(build.last.before, build.last.args[1], w)
            /\ ReachesEnd(build.b, build.last.out, w)
                   <=> Repeats(build.last.before, build.last.args[1], w)

\* oneOrMore(a) accepts a word that a does not, two words of a in a row,
\* and not the empty word
C29_Witness ==
    /\ CalledOneOrMore
    /\ ~NfaAcceptsWord(build.b, build.last.out, <<>>)
    /\ \E w \in RepeatedWords :
          /\ NfaAcceptsWord(build.b, build.last.out, w)
          /\ ~ReachesEnd(build.last.before, build.last.args[1], w)

(***************************************************************************)
(* C30: the round of the move tokens in validateMoveSequence (SpecChess)   *)
(***************************************************************************)
\* the loop of validateMoveSequence is about to visit a move token in one of
\* the three states of a game under way
VisitingMove ==
    /\ phase = "validating" /\ moves.returned = "none"
    /\ validateLoopTest(lex.tokens, moves)
    /\ isMoveToken(lex.tokens[moves.i + 1].type)
    /\ moves.currentState # "GAME_OVER"

\* the state after a move token: EXPECT_BLACK_MOVE after EXPECT_WHITE_MOVE,
\* EXPECT_NUMBER after EXPECT_BLACK_MOVE, and false returned in EXPECT_NUMBER
RoundRobin ==
    IF moves.currentState = "EXPECT_WHITE_MOVE"
    THEN moves'.returned = "none" /\ moves'.currentState = "EXPECT_BLACK_MOVE"
    ELSE IF moves.currentState = "EXPECT_BLACK_MOVE"
         THEN moves'.returned = "none" /\ moves'.currentState = "EXPECT_NUMBER"
         ELSE moves'.returned = "false"

\* the token about to be visited is a CHECKMATE token with no RESULT token
\* right behind it
MateWithoutResult ==
    /\ lex.tokens[moves.i + 1].type = "CHECKMATE"
    /\ lex.tokens[moves.i + 2].type # "RESULT"

\* the MOVE_NUMBER tokens among the first n tokens
NumbersIn(toks, n) == Cardinality({j \in 1..n : toks[j].type = "MOVE_NUMBER"})

\* the move tokens behind the k-th token, up to the next MOVE_NUMBER or
\* RESULT token
MovesBehind(toks, k) ==
    {j \in (k + 1)..Len(toks) :
        /\ isMoveToken(toks[j].type)
        /\ \A m \in (k + 1)..j : toks[m].type \notin {"MOVE_NUMBER", "RESULT"}}

\* each MOVE_NUMBER token has at most two move tokens behind it
TwoMovesATurn(toks) ==
    \A k \in 1..Len(toks) :
        toks[k].type = "MOVE_NUMBER" => Cardinality(MovesBehind(toks, k)) <= 2

\* the counter is one more than the MOVE_NUMBER tokens visited so far, and
\* in EXPECT_NUMBER, with every turn so far completed, one more than the
\* completed turns
CounterCountsTurns ==
    (phase = "validating" /\ moves.returned = "none") =>
        moves.expectedMoveNumber = 1 + NumbersIn(lex.tokens, moves.i)

\* a step changes the counter only by visiting a MOVE_NUMBER token, and then
\* by one
CounterStep ==
    (phase = "validating" /\ moves'.expectedMoveNumber # moves.expectedMoveNumber) =>
        /\ Visiting("MOVE_NUMBER")
        /\ moves'.expectedMoveNumber = moves.expectedMoveNumber + 1

OnEpsilonCycle(b, S) ==
    \E p \in S : p \in EpsilonReachable(b, Successors(b, p, Epsilon))

\* C31: every epsilonClosure call returns, also on a graph whose epsilon
\* transitions form a cycle; no state is pushed onto the stack more than
\* once, the states pushed are those of the closure, the loop makes at most
\* one iteration per state of the builder, and the set it leaves is the
\* closure
C31_ClosureTerminates ==
    /\ [](phase \in {"popping", "closed"} =>
            /\ \A p \in DOMAIN build.pushes :
                   build.pushes[p] = IF p \in build.closure THEN 1 ELSE 0
            /\ build.pops <= Len(build.b.states)
            /\ build.pops + Len(build.stack) = Cardinality(build.closure))
    /\ [](phase = "closed" => build.closure = epsilonClosure(build.b, build.states))
    /\ (phase = "entered") ~> (phase = "closed")

\* a call that returned on an epsilon cycle, after more iterations than the
\* set handed over has states
C31_Witness ==
    /\ phase = "closed"
    /\ OnEpsilonCycle(build.b, build.closure)
    /\ build.pops > Cardinality(build.states)

(***************************************************************************)
(* C32: validateMoveSyntax (SpecSyntax)                                    *)
(***************************************************************************)
\* two tokens in a row, neither END_OF_INPUT nor INVALID, the second
\* starting where the first ends
TouchingPair(toks) ==
    \E k \in 1..(Len(toks) - 1) :
        /\ toks[k].type \notin {"END_OF_INPUT", "INVALID"}
        /\ toks[k + 1].type \notin {"END_OF_INPUT", "INVALID"}
        /\ toks[k].position + Len(toks[k].value) = toks[k + 1].position

\* C32: validateMoveSyntax returns false exactly for the vectors with two
\* tokens in a row, neither END_OF_INPUT nor INVALID, and no gap between
\* them in the input; "e4e5" and "1.e4" are flagged, "1. e4 e5" is not
C32_TouchingFlagged ==
    phase \in {"validating", "done"} =>
        /\ syntaxValid = ~TouchingPair(lex.tokens)
        /\ line \in {TouchingMoves, TouchingNumber} => ~syntaxValid
        /\ line = SpacedTurn => syntaxValid

\* "1.e4" flagged: a MOVE_NUMBER token and the move that touches it
C32_Witness ==
    /\ phase = "validating" /\ line = TouchingNumber /\ ~syntaxValid
    /\ lex.tokens[1].type = "MOVE_NUMBER"
    /\ lex.tokens[2].type = "PAWN_MOVE"

(***************************************************************************)
(* C33: no two patterns of the notation match the same text (SpecLongest)  *)
(***************************************************************************)
\* the patterns with a match, were the input to end here, and the greatest
\* length matched
Candidates == {name \in SeqRange(ChessPatterns) : build.run[name].lastAcceptPos # -1}

Greatest ==
    CHOOSE n \in {build.run[name].lastAcceptPos : name \in Candidates} :
        \A name \in Candidates : build.run[name].lastAcceptPos <= n

\* the patterns in an accepting state on the text read so far
Accepting ==
    {name \in SeqRange(ChessPatterns) :
        /\ build.run[name].currentState # 0
        /\ CompiledDFA[argOrder][name][build.run[name].currentState].isFinal}

\* the candidates as testDFAPattern collects them when the patterns are
\* tested in the given order; Longest compares the lengths of the values
CandidatesIn(order) ==
    LET RECURSIVE From(_, _)
        From(k, candidates) ==
            IF k > Len(order) THEN candidates
            ELSE From(k + 1,
                      IF order[k] \in Candidates
                      THEN Append(candidates,
                                  <<TypeOf(order[k]),
                                    [i \in 1..build.run[order[k]].lastAcceptPos |-> 0]>>)
                      ELSE candidates)
    IN From(1, <<>>)

Backwards(q) == [k \in 1..Len(q) |-> q[Len(q) + 1 - k]]

\* C33: on every text read from a scan position at most one of the
\* thirteen DFAs is in an accepting state, so at most one of them has the
\* greatest match length, and the token type tryMatchLongest returns is the
\* same when the patterns are tested in the opposite order
C33_NoTieBreak ==
    phase = "testing" =>
        /\ Cardinality(Accepting) <= 1
        /\ Candidates # {} =>
              Cardinality({name \in Candidates :
                              build.run[name].lastAcceptPos = Greatest}) = 1
        /\ LongestToken(CandidatesIn(TestOrder), 0).type
              = LongestToken(CandidatesIn(Backwards(TestOrder)), 0).type

\* a text on which three patterns have a match and CHECK the greatest, as
\* on e8=Q+
C33_Witness ==
    /\ phase = "testing"
    /\ Cardinality(Candidates) >= 3
    /\ Accepting = {"check"}
    /\ Greatest = build.pos

(***************************************************************************)
(* C34: tokenize comes to an end (SpecTokenizeFair)                        *)
(***************************************************************************)
\* the DFA of kleeneStar(createCharNFA('a')) of either class; its start
\* state is accepting
StarDFA ==
    [class \in {"Lexer", "ChessNFA"} |->
        LET char == Combine(class, "createCharNFA", NewBuilder, Ord("a"), Ord("a"))
            star == kleeneStar(char.b, char.f)
        IN convertToDFA(star.b, star.f)]

\* "", "b", "ab", "ba"
StarInputs == {<<>>, Str(<<"b">>), Str(<<"a", "b">>), Str(<<"b", "a">>)}

\* tryMatchDFA on a DFA whose start state is accepting reports no match
\* where no character can be read, never an empty one
NoEmptyMatch ==
    /\ \A class \in {"Lexer", "ChessNFA"} : StarDFA[class][1].isFinal
    /\ \A input \in StarInputs : \A startPos \in 0..Len(input) :
          /\ Lexer_tryMatchDFA(StarDFA["Lexer"], input, startPos, "IDENTIFIER").value # <<>>
               \/ Lexer_tryMatchDFA(StarDFA["Lexer"], input, startPos, "IDENTIFIER").type
                     = "INVALID"
          /\ Chess_tryMatchDFA(StarDFA["ChessNFA"], input, startPos).matchedValue # <<>>
               \/ ~Chess_tryMatchDFA(StarDFA["ChessNFA"], input, startPos).matched

\* an iteration of the scan loop moves pos forward by at least one
C34_Advance ==
    (phase = "scanning" /\ phase' = "scanning") => lex'.pos >= lex.pos + 1

\* C34: every tokenize call returns; every token pushed but END_OF_INPUT
\* has a text of at least one character (tryMatchDFA has no empty match,
\* even on a DFA with an accepting start state), every iteration of the scan
\* loop advances pos by at least one, and pos never exceeds the length of
\* the input
C34_TokenizeTerminates ==
    /\ [][C34_Advance]_vars
    /\ [](lex.pos <= Len(line))
    /\ [](\A k \in 1..Len(lex.tokens) :
             lex.tokens[k].type # "END_OF_INPUT" => Len(lex.tokens[k].value) >= 1)
    /\ [](phase = "scanning" => NoEmptyMatch)
    /\ (phase = "scanning") ~> (phase = "scanned")

\* a call that returned after a blank and a token of more than one
\* character
C34_Witness ==
    /\ phase = "scanned"
    /\ lex.pos = Len(line)
    /\ \E q \in 1..Len(line) : isspace(line[q])
    /\ \E k \in 1..Len(lex.tokens) : Len(lex.tokens[k].value) >= 2

(***************************************************************************)
(* C35: the tokens of Lexer::tokenize and the input (SpecTokenize)         *)
(***************************************************************************)
\* the values of the tokens, one after the other
RECURSIVE ValuesOf(_)
ValuesOf(toks) == IF toks = <<>> THEN <<>> ELSE Head(toks).value \o ValuesOf(Tail(toks))

\* the input without its white space
RECURSIVE Unspaced(_)
Unspaced(input) ==
    IF input = <<>> THEN <<>>
    ELSE IF isspace(Head(input)) THEN Unspaced(Tail(input))
    ELSE <<Head(input)>> \o Unspaced(Tail(input))

\* C35: in the vector Lexer::tokenize returns the positions increase
\* strictly, each value is the piece of the input at the token's position,
\* a token ends before the next begins, and the values put together,
\* those of INVALID tokens too, are the input without its white space
C35_TokensCoverInput ==
    (phase = "scanned" /\ lexer = "Lexer") =>
        /\ \A k \in 1..(Len(lex.tokens) - 1) :
               /\ lex.tokens[k].position < lex.tokens[k + 1].position
               /\ lex.tokens[k].position + Len(lex.tokens[k].value)
                     <= lex.tokens[k + 1].position
        /\ \A k \in 1..Len(lex.tokens) :
               /\ lex.tokens[k].position + Len(lex.tokens[k].value) <= Len(line)
               /\ lex.tokens[k].value
                     = SubSeq(line, lex.tokens[k].position + 1,
                              lex.tokens[k].position + Len(lex.tokens[k].value))
        /\ ValuesOf(lex.tokens) = Unspaced(line)

\* a returned vector with an INVALID token, a token of two characters or a
\* second token, and white space in the input
C35_Witness ==
    /\ phase = "scanned" /\ lexer = "Lexer"
    /\ Len(lex.tokens) >= 3
    /\ \E k \in 1..Len(lex.tokens) : lex.tokens[k].type = "INVALID"
    /\ \E q \in 1..Len(line) : isspace(line[q])

(***************************************************************************)
(* C36: INVALID tokens and PDA::parse (SpecAnalyze)                        *)
(***************************************************************************)
\* the vector has an INVALID token with no END_OF_INPUT token before it
InvalidBeforeEnd(toks) ==
    \E k \in 1..Len(toks) :
        /\ toks[k].type = "INVALID"
        /\ \A j \in 1..(k - 1) : toks[j].type # "END_OF_INPUT"

\* a character of the line that starts no token but an INVALID one
UnrecognizedIn(input) ==
    \E q \in 0..(Len(input) - 1) :
        ~isspace(input[q + 1]) /\ Lexer_getNextToken(input, q).type = "INVALID"

\* a step of parse never consumes an INVALID token
C36_InvalidStep ==
    (phase = "parsing" /\ CurrentToken(tokens, parse.tokenIndex).type = "INVALID") =>
        parse'.tokenIndex = parse.tokenIndex

\* C36: no step of PDA::parse consumes an INVALID token, a vector with an
\* INVALID token before END_OF_INPUT is rejected, and a line with an
\* unrecognized character is found invalid by analyzeInput
C36_InvalidRejected ==
    /\ [][C36_InvalidStep]_vars
    /\ []((phase = "parsed" /\ InvalidBeforeEnd(tokens)) => result = "false")
    /\ []((phase = "parsed" /\ UnrecognizedIn(line)) => result = "false")

\* a line rejected at its INVALID token after tokens were consumed, and
\* valid without it
C36_Witness ==
    /\ phase = "parsed" /\ result = "false"
    /\ parse.tokenIndex >= 2
    /\ parse.tokenIndex < Len(tokens)
    /\ tokens[parse.tokenIndex + 1].type = "INVALID"
    /\ PDA_parse(SubSeq(tokens, 1, parse.tokenIndex)
                   \o SubSeq(tokens, parse.tokenIndex + 2, Len(tokens))) = "true"

(***************************************************************************)
(* C37: the stack of PDA::parse (SpecPDA)                                  *)
(***************************************************************************)
\* the loop of parse is about to make an iteration
AtLoopStart == phase = "parsing" /\ parse.currentState \notin {"ACCEPT", "REJECT"}

\* a step that takes the top off the stack takes E in EXPECT_EXPR and
\* AFTER_OPERATOR, ")" or "$" in IN_EXPR, and nothing in the other states
C37_PopStep ==
    (AtLoopStart
       /\ ~(/\ Len(parse'.stackVar) >= Len(parse.stackVar)
            /\ SubSeq(parse'.stackVar, 1, Len(parse.stackVar)) = parse.stackVar)) =>
        \/ /\ parse.currentState \in {"EXPECT_EXPR", "AFTER_OPERATOR"}
           /\ top(parse.stackVar) = "E"
        \/ /\ parse.currentState = "IN_EXPR"
           /\ top(parse.stackVar) = IF parse'.currentState = "ACCEPT" THEN "$" ELSE ")"

\* C37: at the start of every iteration of the loop of parse the stack is
\* not empty; its top is "E" in EXPECT_EXPR and in AFTER_OPERATOR and is
\* ")" or "$" in IN_EXPR, and what a step pops is that symbol; the stack is
\* empty exactly in ACCEPT
C37_StackMatchesState ==
    /\ [](AtLoopStart => parse.stackVar # <<>>)
    /\ []((phase = "parsing" /\ parse.currentState \in {"EXPECT_EXPR", "AFTER_OPERATOR"})
            => top(parse.stackVar) = "E")
    /\ []((phase = "parsing" /\ parse.currentState = "IN_EXPR")
            => top(parse.stackVar) \in {")", "$"})
    /\ [](phase \in {"parsing", "parsed"}
            => (parse.stackVar = <<>> <=> parse.currentState = "ACCEPT"))
    /\ [][C37_PopStep]_vars

\* ACCEPT reached, the stack empty, after a group in parentheses and an
\* operator
C37_Witness ==
    /\ phase = "parsed" /\ parse.currentState = "ACCEPT" /\ parse.stackVar = <<>>
    /\ \E k \in 1..Len(tokens) : tokens[k].type = "RPAREN"
    /\ \E k \in 1..Len(tokens) : tokens[k].type = "OPERATOR"

(***************************************************************************)
(* C38: the token index of PDA::parse (SpecCalls)                          *)
(***************************************************************************)
\* a step of parse moves tokenIndex only by one, and only from a token of
\* the vector that is not END_OF_INPUT
C38_ConsumeStep ==
    (validator.class = "PDA" /\ phase = "called"
       /\ parse'.tokenIndex # parse.tokenIndex) =>
        /\ parse.tokenIndex < Len(tokens)
        /\ tokens[parse.tokenIndex + 1].type # "END_OF_INPUT"
        /\ parse'.tokenIndex = parse.tokenIndex + 1

\* C38: in PDA::parse tokenIndex moves only past a token that is not
\* END_OF_INPUT and never exceeds the number of tokens, so on no vector, not
\* on the empty one nor on one without END_OF_INPUT, does the test
\* tokenIndex > tokens.size() + 5 hold
C38_GuardUnreachable ==
    /\ [][C38_ConsumeStep]_vars
    /\ [](InParse => parse.tokenIndex <= Len(tokens))
    /\ [](InParse => ~LoopDetected(tokens, parse))

\* a call accepted a vector without END_OF_INPUT: tokenIndex stands at the
\* number of tokens
C38_Witness ==
    /\ InParse /\ phase = "returned" /\ result = "true"
    /\ tokens # <<>>
    /\ \A k \in 1..Len(tokens) : tokens[k].type # "END_OF_INPUT"
    /\ parse.tokenIndex = Len(tokens)

(***************************************************************************)
(* C39: the expansion of a range that ends at the greatest char            *)
(* (SpecExpandFair)                                                        *)
(***************************************************************************)
\* C39: for every range start-end with start <= end, one that ends at the
\* greatest value of char included, the loop that expands it is left after
\* end was inserted: c never wraps around, and the characters inserted are
\* those from start to end
C39_ExpansionEnds ==
    /\ [][phase = "expanding" => build'.c >= build.c]_vars
    /\ [](phase = "expanded" => build.validChars = build.start .. build.end)
    /\ (phase = "expanding") ~> (phase = "expanded")

(***************************************************************************)
(* C40: the history of chessboard.cpp (SpecHistory)                        *)
(***************************************************************************)
LastIndex == Len(build.history) - 1

\* what resetGame leaves in the history
ResetHistory == <<[turn |-> "W", status |-> "PLAYING"]>>

\* a click that changes the history is a reset, or it appends one entry at
\* the last index to everything that was there and moves to the new last
\* index
SaveStep ==
    \/ build'.history = build.history
    \/ build'.history = ResetHistory /\ build'.historyIndex = 0
    \/ /\ build.historyIndex = LastIndex
       /\ Len(build'.history) = Len(build.history) + 1
       /\ SubSeq(build'.history, 1, Len(build.history)) = build.history
       /\ build'.historyIndex = Len(build'.history) - 1

\* a move is applied (the turn passes without a load, or the promotion menu
\* opens) only at the last index
MoveStep ==
    (\/ build'.isPromoting /\ ~build.isPromoting
     \/ build'.history # build.history /\ build'.history # ResetHistory)
        => build.historyIndex = LastIndex

HistoryStep == phase = "playing" => SaveStep /\ MoveStep

\* C40: after resetGame and any sequence of reset, undo, redo, move and
\* promotion-choice clicks, 0 <= historyIndex < history.size(); a move is
\* applied only at the last index, so that saveCurrentState appends exactly
\* one entry, discards none and leaves historyIndex at the new last index
C40_HistoryInRange ==
    /\ [][HistoryStep]_vars
    /\ [](phase = "playing" =>
            /\ 0 <= build.historyIndex
            /\ build.historyIndex < Len(build.history)
            /\ build.isPromoting => build.historyIndex = LastIndex)

\* a game of three entries or more seen from an earlier entry after an
\* undo, its redo entries all there
C40_Witness ==
    /\ phase = "playing"
    /\ Len(build.history) >= 3
    /\ build.historyIndex < LastIndex
    /\ build.selected
    /\ build.history[Len(build.history)].status = "CHECK"

=============================================================================
